---- MODULE Spec2Model ----
(***************************************************************************)
(* Email-response dashboards (bichwa/email-tracker-dashboard).             *)
(*                                                                         *)
(* The repository holds several variants of one React dashboard.  Two of   *)
(* them carry the range logic that is verified here:                       *)
(*                                                                         *)
(*   - the range dashboard   (src/unnamed/part_000, first App): the range  *)
(*     is a pair of component states startDate/endDate anchored on the     *)
(*     wall-clock day, and every change of the range issues a read;        *)
(*   - the latest-day dashboard (src/unnamed/part_001): one read at mount, *)
(*     the range is derived from the most recent date of the loaded rows.  *)
(*                                                                         *)
(* Representation of JavaScript values:                                    *)
(*   - an ISO date string "YYYY-MM-DD" is the tuple <<y, m, d>>; the empty *)
(*     string is <<>>; string comparison is the lexicographic order of the *)
(*     tuples (StrLE), which is what the code's <=, >= on the zero-padded  *)
(*     strings compute;                                                    *)
(*   - null / undefined is the value Null; a number n is Num(n);           *)
(*   - a number with one decimal is kept in tenths (10.0 is 100);          *)
(*   - the "no data" dash is Dash.                                         *)
(***************************************************************************)
EXTENDS Integers, Sequences, FiniteSets, TLC

VARIABLES
    app,          \* which variant of App is mounted
    \* ---- range dashboard (part_000:77-154)
    todayISO,     \* useMemo(() => toISODate(new Date()), [])
    preset,       \* "7" | "14" | "30" | "60" | "custom"
    startDate,    \* ISO date or "": the state, with the updates still queued
    endDate,      \* ISO date or ""
    committed,    \* <<startDate, endDate>> of the last committed render
    effectDeps,   \* the dependencies the load effect last ran for
    rows,         \* rows shown
    loading,
    loadError,    \* "" or a message
    reads,        \* reads in flight, in the order they were issued
    shown,        \* the committed render shows the controls (part_000:369)
    \* ---- latest-day dashboard (part_001:66-190)
    teamMetrics,
    lmLoading,    \* its `loading` state
    lmRead,       \* the read issued at mount: "pending", "data" or "error"
    rangePreset,  \* "7" | "14" | "30" | "custom"
    customStart,
    customEnd,
    \* ---- the helpers applied to drawn inputs
    inRows,       \* a row array
    inStart,      \* a range bound
    inEnd,
    out,          \* what the helpers returned
    step,         \* "input" before they are applied, "done" after
    \* ---- the serializers applied to a drawn table
    table,        \* the objects to serialize
    csv,          \* what toCSV and exportCSV produced
    \* ---- live-subscription dashboard (src/src/App.js:16-154)
    tracked,      \* the unanswered emails of the tracked_emails table
    liveDays,     \* the selected number of days
    liveRows,     \* the rows shown
    liveLoading,
    liveReads,    \* the reads in flight, oldest first
    liveShown     \* the committed render shows the dashboard (src/src/App.js:90)

rdVars == <<todayISO, preset, startDate, endDate, committed, effectDeps, rows, loading,
           loadError, reads, shown>>
ldVars == <<teamMetrics, lmLoading, lmRead, rangePreset, customStart, customEnd>>
fnVars == <<inRows, inStart, inEnd, out, step>>
exVars == <<table, csv>>
lvVars == <<tracked, liveDays, liveRows, liveLoading, liveReads, liveShown>>
vars == <<app, rdVars, ldVars, fnVars, exVars, lvVars>>

(***************************************************************************)
(* Bounds of the model.                                                    *)
(***************************************************************************)
MaxInFlight == 2      \* reads that may be in flight at once
MaxRows == 2          \* length of a row array the feed returns
MaxMerged == 3        \* length of a row array merged into the employees

(***************************************************************************)
(* JavaScript values.                                                      *)
(***************************************************************************)
Null == [kind |-> "null"]
Dash == [kind |-> "dash"]
Num(n) == [kind |-> "num", val |-> n]
EmptyStr == <<>>
NullDate == <<"null">>     \* a date field that is null

\* !s for a date string or null
Falsy(s) == s = EmptyStr \/ s = NullDate

\* typeof x === "number"
IsNumber(x) == x.kind = "num"

\* x || 0 for a value that is a number or null
OrZero(x) == IF IsNumber(x) /\ x.val # 0 THEN x.val ELSE 0

\* String comparison a < b on date strings (tuple in lexicographic order;
\* the empty string is a proper prefix of every other string).
RECURSIVE StrLT(_, _)
StrLT(a, b) ==
    IF b = <<>> THEN FALSE
    ELSE IF a = <<>> THEN TRUE
    ELSE IF Head(a) # Head(b) THEN Head(a) < Head(b)
    ELSE StrLT(Tail(a), Tail(b))

StrLE(a, b) == a = b \/ StrLT(a, b)
StrGT(a, b) == StrLT(b, a)
StrGE(a, b) == StrLE(b, a)

\* The relational operators on values that are date strings or null.  With
\* a null operand both sides are converted to numbers: null and "" become 0,
\* a date string becomes NaN and every comparison with NaN is false.
ToNumberIsZero(x) == x = NullDate \/ x = EmptyStr
JsLT(a, b) == IF a = NullDate \/ b = NullDate THEN FALSE ELSE StrLT(a, b)
JsGT(a, b) == JsLT(b, a)
JsLE(a, b) ==
    IF a = NullDate \/ b = NullDate THEN ToNumberIsZero(a) /\ ToNumberIsZero(b)
    ELSE StrLE(a, b)
JsGE(a, b) == JsLE(b, a)

\* Math.round(num / den) for den > 0: halves round towards +infinity.
RoundDiv(num, den) == (2 * num + den) \div (2 * den)

(***************************************************************************)
(* Math.round((num / den) * 100) in double arithmetic.  The quotient is    *)
(* rounded to 53 bits before it is multiplied, so the product can miss an  *)
(* exact half k + 0.5 by one unit in the last place; away from a half the  *)
(* error is far too small to change the result.  At a half the magnitude   *)
(* of the quotient is o / 200 with o = 2j + 1 odd: with 2^e the binade of  *)
(* the quotient, its 53-bit mantissa is o * 2^(52 - e) / 200 rounded, the  *)
(* remainder of that division is HalfRemainder, and the product leaves     *)
(* j + 0.5 only when j + 0.5 lies in the sixth binade above (Narrow) and   *)
(* the remainder is more than 64 away from a multiple of 200.              *)
(***************************************************************************)
RECURSIVE Pow2Mod25(_)
Pow2Mod25(n) == IF n = 0 THEN 1 ELSE (2 * Pow2Mod25(n - 1)) % 25

RECURSIVE BinadeUp(_, _)
\* the greatest e >= 0 with 200 * 2^e <= o, for o >= 200
BinadeUp(o, e) == IF 200 * 2^(e + 1) <= o THEN BinadeUp(o, e + 1) ELSE e

RECURSIVE BinadeDown(_, _)
\* the least q with o * 2^q >= 200, for o < 200
BinadeDown(o, q) == IF o * 2^q < 200 THEN BinadeDown(o, q + 1) ELSE q

\* e with 2^e <= o / 200 < 2^(e + 1)
Binade(o) == IF o >= 200 THEN BinadeUp(o, 0) ELSE 0 - BinadeDown(o, 0)

\* j + 0.5 < 2^(e + 7): the product has 6 binary places more than the quotient
Narrow(o) ==
    IF o >= 200 THEN 25 * o < 6400 * 2^Binade(o)
    ELSE 25 * o * 2^(0 - Binade(o)) < 6400

\* (o * 2^(52 - e)) mod 200
HalfRemainder(o) == 8 * (((o % 25) * Pow2Mod25(49 - Binade(o))) % 25)

\* -1, 0 or 1: the double ((2j + 1) / 200) * 100 is below, at or above j + 0.5
HalfError(j) ==
    LET o == 2 * j + 1
        r == HalfRemainder(o)
    IN IF ~Narrow(o) THEN 0
       ELSE IF 64 < r /\ r < 100 THEN -1
       ELSE IF 100 < r /\ r < 136 THEN 1
       ELSE 0

\* Math.round((num / den) * 100) for den > 0
RoundPercent(num, den) ==
    IF (200 * num) % (2 * den) # den THEN RoundDiv(100 * num, den)
    ELSE LET k == (100 * num) \div den
             err == HalfError(IF num > 0 THEN k ELSE 0 - k - 1)
         IN IF (num > 0 /\ err < 0) \/ (num < 0 /\ err > 0) THEN k ELSE k + 1

(***************************************************************************)
(* Calendar arithmetic of the JavaScript Date object (proleptic Gregorian  *)
(* calendar; setDate / setUTCDate normalise an out-of-month day).          *)
(***************************************************************************)
IsLeap(y) == (y % 4 = 0 /\ y % 100 # 0) \/ y % 400 = 0

DaysInMonth(y, m) ==
    IF m = 2 THEN (IF IsLeap(y) THEN 29 ELSE 28)
    ELSE IF m \in {4, 6, 9, 11} THEN 30 ELSE 31

\* Days before 1 January of year y, counted from 0001-01-01.
DaysBeforeYear(y) ==
    LET p == y - 1 IN 365 * p + (p \div 4) - (p \div 100) + (p \div 400)

RECURSIVE DaysBeforeMonth(_, _)
DaysBeforeMonth(y, m) ==
    IF m = 1 THEN 0 ELSE DaysBeforeMonth(y, m - 1) + DaysInMonth(y, m - 1)

\* new Date(y, m - 1, d) as a day number.
DayNumber(iso) == DaysBeforeYear(iso[1]) + DaysBeforeMonth(iso[1], iso[2]) + iso[3] - 1

YearLen(y) == IF IsLeap(y) THEN 366 ELSE 365

RECURSIVE CivilFrom(_, _, _)
\* The date that is n days (n >= 0) after the first day of month m of year y.
CivilFrom(y, m, n) ==
    IF m = 1 /\ n >= YearLen(y) THEN CivilFrom(y + 1, 1, n - YearLen(y))
    ELSE IF n >= DaysInMonth(y, m)
         THEN (IF m = 12 THEN CivilFrom(y + 1, 1, n - 31)
               ELSE CivilFrom(y, m + 1, n - DaysInMonth(y, m)))
    ELSE <<y, m, n + 1>>

\* toISODate of the Date with the given day number (part_000:23-30,
\* part_001:20-23).
toISODate(n) ==
    LET y0 == (n \div 366) + 1     \* a year not after the date's year
    IN CivilFrom(y0, 1, n - DaysBeforeYear(y0))

\* part_000:32-37
addDays(isoDate, deltaDays) == toISODate(DayNumber(isoDate) + deltaDays)

RECURSIVE dateRangeFrom(_, _)
dateRangeFrom(cur, endISO) ==
    IF StrLE(cur, endISO) THEN <<cur>> \o dateRangeFrom(addDays(cur, 1), endISO)
    ELSE <<>>

\* part_000:39-47
dateRangeInclusive(startISO, endISO) == dateRangeFrom(startISO, endISO)

\* parseInt(preset, 10) of the option values
parseInt(p) ==
    CASE p = "7" -> 7 [] p = "14" -> 14 [] p = "30" -> 30 [] p = "60" -> 60

(***************************************************************************)
(* Rows of the table daily_first_responder_metrics:                        *)
(* [date, employee_email, total_first_responses,                           *)
(*  avg_first_response_minutes, sla_breaches].  employee_email "" stands   *)
(* for a missing or empty address (the code only tests its truthiness).    *)
(***************************************************************************)
Row(d, e, n, a, b) ==
    [date |-> d, employee_email |-> e, total_first_responses |-> n,
     avg_first_response_minutes |-> a, sla_breaches |-> b]

\* The table as the range dashboard reads it, ordered by date descending as
\* the query orders it.
Feed ==
    << Row(<<2024, 3, 1>>, "a", Num(10), Num(5), Num(2)),
       Row(<<2024, 2, 29>>, "b", Num(5), Num(20), Num(1)),
       Row(<<2024, 2, 10>>, "a", Num(4), Null, Num(0)),
       Row(<<2024, 1, 15>>, "b", Num(3), Num(7), Num(3)),
       Row(<<2023, 12, 31>>, "a", Num(1), Num(2), Num(0)),
       Row(<<2023, 2, 28>>, "c", Num(2), Num(9), Num(1)) >>

\* .gte("date", startDate).lte("date", endDate).order("date", desc)
Query(s, e) == SelectSeq(Feed, LAMBDA r : StrLE(s, r.date) /\ StrLE(r.date, e))

NoError == [kind |-> "null"]
Error(msg) == [kind |-> "error", message |-> msg]
Data(seq) == [kind |-> "rows", val |-> seq]

\* What the awaited read of the range dashboard can resolve to: {data, error}.
Responses(s, e) ==
    { [error |-> NoError, data |-> Data(Query(s, e))],
      [error |-> Error("timeout"), data |-> Null],
      [error |-> Error(""), data |-> Null] }

\* data || []
DataOrEmpty(data) == IF data.kind = "rows" THEN data.val ELSE <<>>

(***************************************************************************)
(* Range dashboard (part_000:77-154).                                      *)
(***************************************************************************)
Anchors == { <<2024, 3, 1>> }
Presets == {"7", "14", "30", "60", "custom"}
\* values an <input type="date"> can deliver ("" when it is cleared)
DateInputs == { EmptyStr, <<2024, 2, 29>>, <<2024, 1, 15>>, <<2024, 3, 1>> }

InvalidRangeMsg == "Invalid date range."
FailedMsg == "Failed to load data."

\* The mutation of C2: the order of the bounds is not checked.
InvalidRangeEmptyOnly(s, e) == Falsy(s) \/ Falsy(e)

\* part_000:115 and 257: !startDate || !endDate || startDate > endDate
InvalidRange(s, e) == Falsy(s) \/ Falsy(e) \/ StrGT(s, e)

\* The cleanup of the previous effect run: cancelled = true.
Cancel(rds) == [i \in 1..Len(rds) |-> [rds[i] EXCEPT !.cancelled = TRUE]]

\* The window start of a numeric preset: addDays(end, -(n - 1)).
PresetStart(end, n) == addDays(end, -(n - 1))

\* What load() writes: rows, loading, loadError and the reads in flight.
Loaded == [rows |-> rows, loading |-> loading, loadError |-> loadError, reads |-> reads]

Store(st) ==
    /\ rows' = st.rows
    /\ loading' = st.loading
    /\ loadError' = st.loadError
    /\ reads' = st.reads

\* The mutation of C28: the guard leaves the rows on screen.
GuardBranchKeepsRows(st) ==
    [rows |-> st.rows, loading |-> FALSE, loadError |-> InvalidRangeMsg,
     reads |-> Cancel(st.reads)]

\* The basic guard of load(): rows, loading, loadError after it.
GuardBranch(st) ==
    [rows |-> <<>>, loading |-> FALSE, loadError |-> InvalidRangeMsg,
     reads |-> Cancel(st.reads)]

\* The mutation of C27: load() does not set loading.
IssueReadSilent(st, s, e) ==
    [rows |-> st.rows, loading |-> st.loading, loadError |-> "",
     reads |-> Append(Cancel(st.reads), [start |-> s, end |-> e, cancelled |-> FALSE])]

\* load() up to its await: the read is issued.
IssueRead(st, s, e) ==
    [rows |-> st.rows, loading |-> TRUE, loadError |-> "",
     reads |-> Append(Cancel(st.reads), [start |-> s, end |-> e, cancelled |-> FALSE])]

\* The load effect runs for a new range <<s, e>>: the previous run is
\* cancelled by its cleanup, then load() runs up to its await.
LoadEffect(st, s, e) == IF InvalidRange(s, e) THEN GuardBranch(st) ELSE IssueRead(st, s, e)

\* The passive effects of a commit of the dates c, the load effect having
\* last run for deps: it runs only when one of its dependencies changed
\* (part_000:107, 154).
RunEffects(st, deps, c) == IF c # deps THEN LoadEffect(st, c[1], c[2]) ELSE st

\* The reads in flight and the read that the pending load effect, or the
\* one of the queued render, will issue are at most MaxInFlight, so that the
\* bound never holds back an effect.
Queued ==
    IF committed # effectDeps
    THEN (IF InvalidRange(committed[1], committed[2]) THEN 0 ELSE 1)
    ELSE IF <<startDate, endDate>> # committed /\ ~InvalidRange(startDate, endDate)
         THEN 1 ELSE 0
WithinBound == Len(reads) + Queued <= MaxInFlight

\* The mutation of C29: "custom" clears both dates.
PresetEffectClearing(v) ==
    IF v = "custom"
    THEN startDate' = EmptyStr /\ endDate' = EmptyStr
    ELSE startDate' = PresetStart(todayISO, parseInt(v)) /\ endDate' = todayISO

\* The preset effect (part_000:94-104): "custom" returns, a numeric preset
\* calls setStartDate and setEndDate.  An update made in an effect is
\* queued: it is rendered, and the load effect sees it, in a later task.
PresetEffect(v) ==
    IF v = "custom"
    THEN UNCHANGED <<startDate, endDate>>
    ELSE startDate' = PresetStart(todayISO, parseInt(v)) /\ endDate' = todayISO

\* The range <select> changes: the handler sets preset; the render of it,
\* before which the effects still pending of the last commit run, commits
\* in the same task and the preset effect runs.  The controls are those of
\* the committed render, which stays on screen until the next render
\* commits.
SetPreset(v) ==
    /\ app = "range"
    /\ shown
    /\ v # preset
    /\ preset' = v
    /\ PresetEffect(v)
    /\ Store(RunEffects(Loaded, effectDeps, committed))
    /\ effectDeps' = committed
    /\ UNCHANGED <<app, todayISO, committed, shown, ldVars, fnVars, exVars, lvVars>>
    /\ WithinBound'

\* A custom date input changes to the dates c.  The inputs, rendered only
\* when preset is "custom", show the committed dates.  The handler sets
\* the date; the effects still pending of the last commit run, the render
\* commits in the same task, with the other date as it was committed (a
\* queued update of it is not part of this render), and the load effect
\* runs for it.
SetDates(c) ==
    /\ committed' = c
    /\ effectDeps' = c
    /\ Store(RunEffects(RunEffects(Loaded, effectDeps, committed), committed, c))

SetStartDate(v) ==
    /\ app = "range"
    /\ shown
    /\ preset = "custom"
    /\ v # committed[1]
    /\ startDate' = v
    /\ endDate' = endDate
    /\ SetDates(<<v, committed[2]>>)
    /\ UNCHANGED <<app, todayISO, preset, shown, ldVars, fnVars, exVars, lvVars>>
    /\ WithinBound'

SetEndDate(v) ==
    /\ app = "range"
    /\ shown
    /\ preset = "custom"
    /\ v # committed[2]
    /\ startDate' = startDate
    /\ endDate' = v
    /\ SetDates(<<committed[1], v>>)
    /\ UNCHANGED <<app, todayISO, preset, shown, ldVars, fnVars, exVars, lvVars>>
    /\ WithinBound'

\* The render of the queued updates commits, in a task of its own, after
\* the effects of the commit before: it shows the state as it is,
\* `if (loading) return ...` replacing the controls by the loading
\* placeholder.  Its effects are left to a later task.
Render ==
    /\ app = "range"
    /\ committed = effectDeps
    /\ (shown # ~loading \/ <<startDate, endDate>> # committed)
    /\ shown' = ~loading
    /\ committed' = <<startDate, endDate>>
    /\ UNCHANGED <<app, todayISO, preset, startDate, endDate, effectDeps, rows, loading,
                   loadError, reads, ldVars, fnVars, exVars, lvVars>>

\* The effects of the commit of new dates run, in the task after it: the
\* cleanup of the run before sets its cancelled, then load() runs up to
\* its await (part_000:107-154).
Passive ==
    /\ app = "range"
    /\ committed # effectDeps
    /\ Store(LoadEffect(Loaded, committed[1], committed[2]))
    /\ effectDeps' = committed
    /\ UNCHANGED <<app, todayISO, preset, startDate, endDate, committed, shown,
                   ldVars, fnVars, exVars, lvVars>>

RemoveAt(s, i) == SubSeq(s, 1, i - 1) \o SubSeq(s, i + 1, Len(s))

\* The branches on error of load() and its setLoading(false).
Settle(resp) ==
    /\ IF resp.error # NoError
       THEN /\ rows' = <<>>
            /\ loadError' = (IF resp.error.message # "" THEN resp.error.message
                             ELSE FailedMsg)
       ELSE /\ rows' = DataOrEmpty(resp.data)
            /\ loadError' = loadError
    /\ loading' = FALSE

\* load() continues after its await: if (cancelled) return.
ApplyResponse(cancelled, resp) ==
    IF cancelled THEN UNCHANGED <<rows, loading, loadError>> ELSE Settle(resp)

ResolveRead(i, resp) ==
    /\ app = "range"
    /\ ApplyResponse(reads[i].cancelled, resp)
    /\ reads' = RemoveAt(reads, i)
    /\ UNCHANGED <<app, todayISO, preset, startDate, endDate, committed, effectDeps, shown,
                   ldVars, fnVars, exVars, lvVars>>

\* The range dashboard after mount: preset "30", the default window, the
\* loading placeholder on screen, the first read issued.
RdMounted ==
    /\ todayISO \in Anchors
    /\ preset = "30"
    /\ startDate = addDays(todayISO, -29)
    /\ endDate = todayISO
    /\ committed = <<startDate, endDate>>
    /\ effectDeps = committed
    /\ rows = <<>>
    /\ loading = TRUE
    /\ loadError = ""
    /\ reads = << [start |-> startDate, end |-> endDate, cancelled |-> FALSE] >>
    /\ shown = FALSE

\* The range dashboard is not mounted.
RdIdle ==
    /\ todayISO = EmptyStr
    /\ preset = "30"
    /\ startDate = EmptyStr
    /\ endDate = EmptyStr
    /\ committed = <<EmptyStr, EmptyStr>>
    /\ effectDeps = <<EmptyStr, EmptyStr>>
    /\ rows = <<>>
    /\ loading = FALSE
    /\ loadError = ""
    /\ reads = <<>>
    /\ shown = FALSE

(***************************************************************************)
(* Rollups of the range dashboard over the rows shown (part_000:163-197).  *)
(***************************************************************************)
RECURSIVE SumResponses(_)
\* rows.reduce((sum, r) => sum + (r.total_first_responses || 0), 0)
SumResponses(rs) ==
    IF rs = <<>> THEN 0
    ELSE OrZero(Head(rs).total_first_responses) + SumResponses(Tail(rs))

RECURSIVE SumBreachesOfResponses(_)
\* The mutation of C9: the breaches are summed from the responses column.
SumBreachesOfResponses(rs) ==
    IF rs = <<>> THEN 0
    ELSE OrZero(Head(rs).total_first_responses) + SumBreachesOfResponses(Tail(rs))

RECURSIVE SumBreaches(_)
\* rows.reduce((sum, r) => sum + (r.sla_breaches || 0), 0)
SumBreaches(rs) ==
    IF rs = <<>> THEN 0
    ELSE OrZero(Head(rs).sla_breaches) + SumBreaches(Tail(rs))

\* typeof avg === "number" && cnt > 0
Weighs(r) ==
    IsNumber(r.avg_first_response_minutes) /\ OrZero(r.total_first_responses) > 0

RECURSIVE WeightedTotal(_)
\* wTotal: the sum of avg * cnt over the rows that weigh
WeightedTotal(rs) ==
    IF rs = <<>> THEN 0
    ELSE (IF Weighs(Head(rs))
          THEN Head(rs).avg_first_response_minutes.val
               * OrZero(Head(rs).total_first_responses)
          ELSE 0) + WeightedTotal(Tail(rs))

\* The mutation of C10: every row counts in the denominator.
WeightedCountOfAll(rs) == SumResponses(rs)

RECURSIVE WeightedCount(_)
\* wCount: the sum of cnt over the rows that weigh
WeightedCount(rs) ==
    IF rs = <<>> THEN 0
    ELSE (IF Weighs(Head(rs)) THEN OrZero(Head(rs).total_first_responses) ELSE 0)
         + WeightedCount(Tail(rs))

\* wCount > 0 ? Math.round((wTotal / wCount) * 10) / 10 : "—"   (in tenths)
RoundedAverage(wTotal, wCount) ==
    IF wCount > 0 THEN Num(RoundDiv(10 * wTotal, wCount)) ELSE Dash

\* total > 0 ? Math.round(((total - breaches) / total) * 100) : "—"
RoundedPercent(total, breaches) ==
    IF total > 0 THEN Num(RoundPercent(total - breaches, total)) ELSE Dash

totals(rs) ==
    [ totalResponses |-> SumResponses(rs),
      totalBreaches |-> SumBreaches(rs),
      avgMinutes |-> RoundedAverage(WeightedTotal(rs), WeightedCount(rs)),
      slaPercent |-> RoundedPercent(SumResponses(rs), SumBreaches(rs)) ]

\* part_000:256-259
days(s, e) == IF InvalidRange(s, e) THEN <<>> ELSE dateRangeInclusive(s, e)

(***************************************************************************)
(* Latest-day dashboard (part_001:66-391).                                 *)
(***************************************************************************)
\* clamp(n, min, max) == Math.max(min, Math.min(max, n))
Min2(a, b) == IF a <= b THEN a ELSE b
Max2(a, b) == IF a >= b THEN a ELSE b
clamp(n, lo, hi) == Max2(lo, Min2(hi, n))

\* safeNumber(x): the number, or null
safeNumber(x) == IF IsNumber(x) THEN x ELSE Null

\* new Set(teamMetrics.map(r => r.date).filter(Boolean))
DatesOf(tm) == { tm[i].date : i \in 1..Len(tm) } \ {EmptyStr, NullDate}

\* The greatest date of a non-empty set (localeCompare order).
MaxDate(S) == CHOOSE d \in S : \A x \in S : StrLE(x, d)

RECURSIVE SortDatesDesc(_)
SortDatesDesc(S) ==
    IF S = {} THEN <<>> ELSE <<MaxDate(S)>> \o SortDatesDesc(S \ {MaxDate(S)})

\* part_001:113-116
allDatesDesc(tm) == SortDatesDesc(DatesOf(tm))

\* startDate.setUTCDate(startDate.getUTCDate() - k); toISODate(startDate)
DaysBefore(iso, k) == toISODate(DayNumber(iso) - k)

\* The mutation of C4: the window is one day too long.
PresetWindowOffByOne(mostRecent, n) ==
    [rangeStart |-> DaysBefore(mostRecent, n), rangeEnd |-> mostRecent]

\* part_001:141-150: the window of a numeric preset
PresetWindow(mostRecent, n) ==
    [rangeStart |-> DaysBefore(mostRecent, n - 1), rangeEnd |-> mostRecent]

\* The mutation of C5: the fallback is the 7-day window.
CustomFallbackSeven(mostRecent) ==
    [rangeStart |-> DaysBefore(mostRecent, 6), rangeEnd |-> mostRecent]

\* part_001:154-161: "If custom missing, fall back to 30 days"
CustomFallback(mostRecent) ==
    [rangeStart |-> DaysBefore(mostRecent, 29), rangeEnd |-> mostRecent]

\* The mutation of C6: the bounds are taken as typed.
NormalizeNot(cs, ce) == [rangeStart |-> cs, rangeEnd |-> ce]

\* part_001:163-166: "Normalize (ensure start <= end)"
Normalize(cs, ce) ==
    [rangeStart |-> (IF StrLE(cs, ce) THEN cs ELSE ce),
     rangeEnd |-> (IF StrLE(cs, ce) THEN ce ELSE cs)]

\* part_001:133-167: { rangeStart, rangeEnd }
Range(tm, rp, cs, ce) ==
    IF Len(allDatesDesc(tm)) = 0
    THEN [rangeStart |-> NullDate, rangeEnd |-> NullDate]
    ELSE LET mostRecent == allDatesDesc(tm)[1] IN
         IF rp # "custom" THEN PresetWindow(mostRecent, parseInt(rp))
         ELSE IF Falsy(cs) \/ Falsy(ce) THEN CustomFallback(mostRecent)
         ELSE Normalize(cs, ce)

\* The mutation of C8: the end of the window is exclusive.
metricsInRangeExclusive(tm, rs, re) ==
    IF Falsy(rs) \/ Falsy(re) THEN <<>>
    ELSE SelectSeq(tm, LAMBDA r : JsGE(r.date, rs) /\ JsLT(r.date, re))

\* part_001:169-172
metricsInRange(tm, rs, re) ==
    IF Falsy(rs) \/ Falsy(re) THEN <<>>
    ELSE SelectSeq(tm, LAMBDA r : JsGE(r.date, rs) /\ JsLE(r.date, re))

RECURSIVE MaxDateOfRows(_, _)
\* the loop of latestDateInRange: if (r.date > max) max = r.date
MaxDateOfRows(rs, max) ==
    IF rs = <<>> THEN max
    ELSE MaxDateOfRows(Tail(rs), IF JsGT(Head(rs).date, max) THEN Head(rs).date ELSE max)

\* part_001:177-185
latestDateInRange(mir) ==
    IF Len(mir) = 0 THEN NullDate ELSE MaxDateOfRows(mir, mir[1].date)

\* The mutation of C30: every row of the range is taken for the latest day.
latestMetricsAll(mir) == mir

\* part_001:187-190
latestMetrics(mir) ==
    IF Falsy(latestDateInRange(mir)) THEN <<>>
    ELSE SelectSeq(mir, LAMBDA r : r.date = latestDateInRange(mir))

\* part_001:195-201
totalResponses(lm) == SumResponses(lm)
totalBreaches(lm) == SumBreaches(lm)

\* avg !== null && n > 0, with avg = safeNumber(..), n = safeNumber(..) || 0
WeighsSafe(r) ==
    safeNumber(r.avg_first_response_minutes) # Null
    /\ OrZero(safeNumber(r.total_first_responses)) > 0

RECURSIVE SafeTotal(_)
SafeTotal(rs) ==
    IF rs = <<>> THEN 0
    ELSE (IF WeighsSafe(Head(rs))
          THEN Head(rs).avg_first_response_minutes.val
               * OrZero(Head(rs).total_first_responses)
          ELSE 0) + SafeTotal(Tail(rs))

RECURSIVE SafeCount(_)
SafeCount(rs) ==
    IF rs = <<>> THEN 0
    ELSE (IF WeighsSafe(Head(rs)) THEN OrZero(Head(rs).total_first_responses) ELSE 0)
         + SafeCount(Tail(rs))

\* The mutation of C7: without a weighing row the average is 0, not the dash.
avgResponseZero(lm) ==
    IF SafeCount(lm) > 0 THEN Num(RoundDiv(10 * SafeTotal(lm), SafeCount(lm))) ELSE Num(0)

\* part_001:203-218
avgResponse(lm) == RoundedAverage(SafeTotal(lm), SafeCount(lm))

\* part_001:220-224
slaPercent(lm) ==
    IF totalResponses(lm) <= 0 THEN Dash
    ELSE Num(clamp(RoundPercent(totalResponses(lm) - totalBreaches(lm),
                                totalResponses(lm)), 0, 100))

\* The position of key k in a sequence of buckets, 0 when absent.
RECURSIVE FindKey(_, _, _)
FindKey(bs, k, i) ==
    IF i > Len(bs) THEN 0 ELSE IF bs[i].key = k THEN i ELSE FindKey(bs, k, i + 1)

RECURSIVE EmployeeBuckets(_, _)
\* The loop of perEmployee (part_001:232-252); Object.values lists the
\* buckets in the order their keys were first inserted.
EmployeeBuckets(lm, bs) ==
    IF lm = <<>> THEN bs
    ELSE LET row == Head(lm)
             k == row.employee_email
             n == OrZero(row.total_first_responses)
             avg == OrZero(safeNumber(row.avg_first_response_minutes))
             b == OrZero(row.sla_breaches)
             at == FindKey(bs, k, 1)
             bs1 == IF at = 0
                    THEN Append(bs, [key |-> k, employee_email |-> k,
                                     total_first_responses |-> 0, sla_breaches |-> 0,
                                     weighted |-> 0])
                    ELSE bs
             j == IF at = 0 THEN Len(bs1) ELSE at
         IN IF k = "" THEN EmployeeBuckets(Tail(lm), bs)
            ELSE EmployeeBuckets(Tail(lm),
                    [bs1 EXCEPT ![j].total_first_responses = @ + n,
                                ![j].sla_breaches = @ + b,
                                ![j].weighted = @ + avg * n])

\* The .map of perEmployee (part_001:255-279)
EmployeeSummary(emp) ==
    [ employee_email |-> emp.employee_email,
      total_first_responses |-> emp.total_first_responses,
      sla_breaches |-> emp.sla_breaches,
      weighted |-> emp.weighted,
      avg_response |-> RoundedAverage(emp.weighted, emp.total_first_responses),
      sla_percent |->
          IF emp.total_first_responses > 0
          THEN Num(clamp(RoundPercent(emp.total_first_responses - emp.sla_breaches,
                                      emp.total_first_responses), 0, 100))
          ELSE Dash ]

RECURSIVE InsertByVolume(_, _)
\* x goes behind every element that does not have fewer responses: the
\* sort is stable.
InsertByVolume(sorted, x) ==
    IF sorted = <<>> THEN <<x>>
    ELSE IF Head(sorted).total_first_responses >= x.total_first_responses
         THEN <<Head(sorted)>> \o InsertByVolume(Tail(sorted), x)
         ELSE <<x>> \o sorted

RECURSIVE SortByVolume(_, _)
\* .sort((a, b) => (b.total_first_responses || 0) - (a.total_first_responses || 0))
SortByVolume(xs, sorted) ==
    IF xs = <<>> THEN sorted
    ELSE SortByVolume(Tail(xs), InsertByVolume(sorted, Head(xs)))

(***************************************************************************)
(* Arrays as objects.  A heap is the sequence of the arrays that exist, an *)
(* array is referred to by its index in it; the row array the aggregators  *)
(* are given is one of them.                                               *)
(***************************************************************************)
\* Object.values(..), .map(..), .filter(..) and Array.from(..) return a new
\* array.
NewArray(h, a) == Append(h, a)

\* Array.prototype.sort sorts the array it is called on, in place: the
\* array at ref holds its elements in the order `sorted`.
SortArray(h, ref, sorted) == [h EXCEPT ![ref] = sorted]

\* part_001:229-281 on the heap h, lm referring to the rows: the array that
\* Object.values(buckets).map(...) returns is the one .sort is called on.
perEmployeeOnHeap(h, lm) ==
    LET bs == EmployeeBuckets(h[lm], <<>>)
        h1 == NewArray(h, [i \in 1..Len(bs) |-> EmployeeSummary(bs[i])])
    IN SortArray(h1, Len(h1), SortByVolume(h1[Len(h1)], <<>>))

\* part_001:229-281: the array perEmployee returns
perEmployee(lm) == LET h == perEmployeeOnHeap(<<lm>>, 1) IN h[Len(h)]

\* Rows of one date, in order.
OnDate(rs, d) == SelectSeq(rs, LAMBDA r : r.date = d)

\* part_001:286-298: one entry per date that has a row, ascending.
dailyTrend(mir) ==
    LET ds == SortDatesDesc(DatesOf(mir))
        n == Len(ds)
    IN [i \in 1..n |->
          [ date |-> ds[n + 1 - i],
            total_first_responses |-> SumResponses(OnDate(mir, ds[n + 1 - i])),
            sla_breaches |-> SumBreaches(OnDate(mir, ds[n + 1 - i])) ]]

\* localeCompare on the addresses of the model
EmailRank(e) == CASE e = "" -> 0 [] e = "a" -> 1 [] e = "b" -> 2 [] e = "c" -> 3

RECURSIVE SortEmails(_)
SortEmails(S) ==
    IF S = {} THEN <<>>
    ELSE LET m == CHOOSE e \in S : \A x \in S : EmailRank(e) <= EmailRank(x)
         IN <<m>> \o SortEmails(S \ {m})

\* Rows that the lookup loop of heatmap does not skip.
Keyed(rs) == SelectSeq(rs, LAMBDA r : r.employee_email # "" /\ ~Falsy(r.date))

RECURSIVE MaxRunning(_, _, _)
\* maxBreaches: the greatest value any cell of the lookup took while the
\* loop ran over the first i keyed rows.
MaxRunning(ks, i, m) ==
    IF i > Len(ks) THEN m
    ELSE LET v == SumBreaches(SelectSeq(SubSeq(ks, 1, i),
                      LAMBDA r : r.employee_email = ks[i].employee_email
                                 /\ r.date = ks[i].date))
         IN MaxRunning(ks, i + 1, IF v > m THEN v ELSE m)

\* part_001:354-377
heatmap(mir) ==
    LET ds == SortDatesDesc(DatesOf(mir))
        n == Len(ds)
        emails == { mir[i].employee_email : i \in 1..Len(mir) } \ {""}
        ks == Keyed(mir)
        keys == { <<ks[i].employee_email, ks[i].date>> : i \in 1..Len(ks) }
    IN [ dates |-> [i \in 1..n |-> ds[n + 1 - i]],
         employees |-> SortEmails(emails),
         lookup |-> [k \in keys |->
                       SumBreaches(SelectSeq(ks, LAMBDA r : r.employee_email = k[1]
                                                            /\ r.date = k[2]))],
         maxBreaches |-> MaxRunning(ks, 1, 0) ]

\* breachCellStyle(breaches, maxBreaches) (part_001:379-391).  Without a
\* positive maximum the cell is transparent and nothing is divided.  With
\* one, t = breaches / maxBreaches and the shade is clamp(t, 0, 1); the
\* fraction is kept as numerator over denominator, and for maxBreaches > 0
\* clamp(breaches / maxBreaches, 0, 1) = clamp(breaches, 0, maxBreaches) / maxBreaches.
breachCellStyle(breaches, maxBreaches) ==
    IF maxBreaches <= 0 THEN [background |-> "transparent"]
    ELSE [background |-> "shaded",
          t |-> [num |-> clamp(breaches, 0, maxBreaches), den |-> maxBreaches]]

\* (heatmap.lookup[emp] && heatmap.lookup[emp][d]) || 0   (part_001:656)
heatmapCell(hm, emp, d) ==
    IF <<emp, d>> \in DOMAIN hm.lookup THEN hm.lookup[<<emp, d>>] ELSE 0

\* The heatmap table of the latest-day dashboard (part_001:650-667): a cell
\* per employee and date of the heatmap, with its value and its style.
heatmapCells(hm) ==
    [i \in 1..Len(hm.employees) |-> [j \in 1..Len(hm.dates) |->
        [ employee_email |-> hm.employees[i],
          date |-> hm.dates[j],
          v |-> heatmapCell(hm, hm.employees[i], hm.dates[j]),
          style |-> breachCellStyle(heatmapCell(hm, hm.employees[i], hm.dates[j]),
                                    hm.maxBreaches) ]]]

(***************************************************************************)
(* Per-employee and per-day aggregates of the range dashboard              *)
(* (part_000:199-324).                                                     *)
(***************************************************************************)
TopN == 8               \* useState(8): employees shown in trend and heatmap
HeatmapMaxDays == 14    \* const max = 14

RECURSIVE EmployeeAcc(_, _)
\* The loop of perEmployee (part_000:202-222): rows without an address are
\* skipped; the weighted sum takes only rows with a numeric average and a
\* positive count.
EmployeeAcc(rs, acc) ==
    IF rs = <<>> THEN acc
    ELSE LET r == Head(rs)
             email == r.employee_email
             cnt == OrZero(r.total_first_responses)
             breaches == OrZero(r.sla_breaches)
             at == FindKey(acc, email, 1)
             acc1 == IF at = 0
                     THEN Append(acc, [key |-> email, employee_email |-> email,
                                       total_first_responses |-> 0, sla_breaches |-> 0,
                                       weighted |-> 0])
                     ELSE acc
             j == IF at = 0 THEN Len(acc1) ELSE at
         IN IF email = "" THEN EmployeeAcc(Tail(rs), acc)
            ELSE EmployeeAcc(Tail(rs),
                    [acc1 EXCEPT ![j].total_first_responses = @ + cnt,
                                 ![j].sla_breaches = @ + breaches,
                                 ![j].weighted = @ + (IF Weighs(r)
                                     THEN r.avg_first_response_minutes.val * cnt
                                     ELSE 0)])

\* The .map of perEmployee (part_000:224-246): the weighted sum is divided
\* by all the responses of the employee; the percentage is not clamped.
EmployeeEntry(e) ==
    [ employee_email |-> e.employee_email,
      total_first_responses |-> e.total_first_responses,
      sla_breaches |-> e.sla_breaches,
      avg_response |-> RoundedAverage(e.weighted, e.total_first_responses),
      sla_percent |-> RoundedPercent(e.total_first_responses, e.sla_breaches) ]

RECURSIVE InsertRowByVolume(_, _)
InsertRowByVolume(sorted, x) ==
    IF sorted = <<>> THEN <<x>>
    ELSE IF OrZero(Head(sorted).total_first_responses) >= OrZero(x.total_first_responses)
         THEN <<Head(sorted)>> \o InsertRowByVolume(Tail(sorted), x)
         ELSE <<x>> \o sorted

RECURSIVE SortRowsByVolume(_, _)
SortRowsByVolume(xs, sorted) ==
    IF xs = <<>> THEN sorted
    ELSE SortRowsByVolume(Tail(xs), InsertRowByVolume(sorted, Head(xs)))

\* The mutation of C23: rows.sort(...) in the place of out.sort(...).
perEmployeeSortsRows(h, r) ==
    LET acc == EmployeeAcc(h[r], <<>>)
        h1 == NewArray(h, [i \in 1..Len(acc) |-> EmployeeEntry(acc[i])])
    IN SortArray(h1, r, SortRowsByVolume(h1[r], <<>>))

\* perEmployee of the range dashboard (part_000:200-251) on the heap h, r
\* referring to rows: out, the array that Object.values(acc).map(...)
\* returns, is the one out.sort(...) sorts (part_000:224, 249).
perEmployeeOfRangeOnHeap(h, r) ==
    LET acc == EmployeeAcc(h[r], <<>>)
        h1 == NewArray(h, [i \in 1..Len(acc) |-> EmployeeEntry(acc[i])])
    IN SortArray(h1, Len(h1), SortByVolume(h1[Len(h1)], <<>>))

\* perEmployee of the range dashboard (part_000:200-251): out, as returned
perEmployeeOfRange(rs) == LET h == perEmployeeOfRangeOnHeap(<<rs>>, 1) IN h[Len(h)]

\* perEmployee.slice(0, topN)   (part_000:253)
topEmployees(pe, topN) == SubSeq(pe, 1, Min2(topN, Len(pe)))

RECURSIVE DayEmployeeLoop(_, _)
\* The second loop of dayEmployeeMap (part_000:265-274): the cell of a
\* (day, employee) pair is assigned, so the last row of a pair is kept.
DayEmployeeLoop(rs, cells) ==
    IF rs = <<>> THEN cells
    ELSE LET r == Head(rs)
             k == <<r.date, r.employee_email>>
             cell == [responses |-> OrZero(r.total_first_responses),
                      breaches |-> OrZero(r.sla_breaches)]
         IN IF Falsy(r.date) \/ r.employee_email = ""
            THEN DayEmployeeLoop(Tail(rs), cells)
            ELSE DayEmployeeLoop(Tail(rs),
                    [x \in (DOMAIN cells) \cup {k} |-> IF x = k THEN cell ELSE cells[x]])

\* dayEmployeeMap (part_000:262-276): the days that have an entry, and the
\* cells of the (day, employee) pairs.
dayEmployeeMap(rs, ds) ==
    LET cells == DayEmployeeLoop(rs, [x \in {} |-> Null])
    IN [ dayKeys |-> { ds[i] : i \in 1..Len(ds) } \cup { k[1] : k \in DOMAIN cells },
         cells |-> cells ]

\* dayEmployeeMap[d]?.[email]?.responses || 0
responsesOf(map, d, email) ==
    IF <<d, email>> \in DOMAIN map.cells THEN map.cells[<<d, email>>].responses ELSE 0

\* The mutation of C17: the cell shows the responses of the pair.
breachesOfResponses(map, d, email) ==
    IF <<d, email>> \in DOMAIN map.cells THEN map.cells[<<d, email>>].responses ELSE 0

\* dayEmployeeMap[d]?.[email]?.breaches || 0
breachesOf(map, d, email) ==
    IF <<d, email>> \in DOMAIN map.cells THEN map.cells[<<d, email>>].breaches ELSE 0

\* trendData (part_000:279-289): one row per day, a value per top employee
trendData(ds, map, top) ==
    [i \in 1..Len(ds) |->
        [ date |-> ds[i],
          values |-> [j \in 1..Len(top) |->
                         responsesOf(map, ds[i], top[j].employee_email)] ]]

\* heatmapDays (part_000:292-296): the last 14 days at most
heatmapDays(ds) ==
    IF Len(ds) <= HeatmapMaxDays THEN ds
    ELSE SubSeq(ds, Len(ds) - HeatmapMaxDays + 1, Len(ds))

\* The mutation of C18: the greatest cell is sought among the responses.
heatMaxOfResponses(hds, top, map) ==
    LET vs == { responsesOf(map, hds[i], top[j].employee_email) :
                    i \in 1..Len(hds), j \in 1..Len(top) } \cup {0}
    IN CHOOSE m \in vs : \A v \in vs : v <= m

\* heatMax (part_000:298-307): the greatest breaches value of a shown cell
heatMax(hds, top, map) ==
    LET vs == { breachesOf(map, hds[i], top[j].employee_email) :
                    i \in 1..Len(hds), j \in 1..Len(top) } \cup {0}
    IN CHOOSE m \in vs : \A v \in vs : v <= m

\* const intensity = heatMax > 0 ? v / heatMax : 0   (part_000:312), kept
\* as numerator over denominator.
heatIntensity(v, max) ==
    IF max > 0 THEN [num |-> v, den |-> max] ELSE [num |-> 0, den |-> 1]

\* The heatmap table of the range dashboard (part_000:516-527): a cell per
\* top employee and heatmap day, with its value and its intensity.
heatCells(rs, s, e) ==
    LET ds == days(s, e)
        map == dayEmployeeMap(rs, ds)
        top == topEmployees(perEmployeeOfRange(rs), TopN)
        hds == heatmapDays(ds)
        max == heatMax(hds, top, map)
    IN [i \in 1..Len(top) |-> [j \in 1..Len(hds) |->
           [ employee_email |-> top[i].employee_email,
             date |-> hds[j],
             v |-> breachesOf(map, hds[j], top[i].employee_email),
             intensity |-> heatIntensity(
                 breachesOf(map, hds[j], top[i].employee_email), max) ]]]

(***************************************************************************)
(* Rows the feed of the latest-day dashboard can hold, and the arrays the  *)
(* helpers are applied to.  The pool has the two rows of the worked        *)
(* example, a row without average, without address, without count,         *)
(* without date, with a zero count, with more breaches than responses and  *)
(* two rows of one day with the same count.                                *)
(***************************************************************************)
RowPool ==
    { Row(<<2024, 1, 1>>, "a", Num(10), Num(5), Num(2)),
      Row(<<2024, 1, 1>>, "b", Num(5), Num(20), Num(1)),
      Row(<<2024, 1, 2>>, "a", Num(10), Null, Num(0)),
      Row(<<2024, 1, 2>>, "", Num(5), Num(5), Num(1)),
      Row(<<2023, 11, 30>>, "b", Null, Num(20), Null),
      Row(<<2024, 1, 1>>, "a", Num(0), Null, Num(0)),
      Row(NullDate, "c", Num(5), Num(20), Num(7)),
      Row(<<2023, 12, 31>>, "c", Num(1), Num(0), Num(2)),
      Row(<<2024, 1, 1>>, "c", Num(5), Num(10), Num(0)) }

RECURSIVE SeqsUpTo(_, _)
\* The sequences over S of length at most n.
SeqsUpTo(S, n) ==
    IF n = 0 THEN { <<>> }
    ELSE LET shorter == SeqsUpTo(S, n - 1)
         IN shorter \cup { Append(q, x) : q \in shorter, x \in S }

\* .order("date", { ascending: false }): descending, nulls first
DateDescending(q) ==
    \A i \in 1..(Len(q) - 1) :
        \/ q[i].date = NullDate
        \/ (q[i + 1].date # NullDate /\ StrGE(q[i].date, q[i + 1].date))

LdData == { q \in SeqsUpTo(RowPool, MaxRows) : DateDescending(q) }

\* What the read at mount can resolve to.
LdResponses ==
    { [error |-> NoError, data |-> Data(q)] : q \in LdData }
    \cup { [error |-> Error("timeout"), data |-> Null] }

LdPresets == {"7", "14", "30", "custom"}
LdInputs == { EmptyStr, <<2023, 12, 31>>, <<2024, 1, 2>> }

\* loadMetrics() continues after its await (part_001:97-104).
LoadMetricsResolve(resp) ==
    /\ app = "latest"
    /\ lmRead = "pending"
    /\ lmRead' = (IF resp.error # NoError THEN "error" ELSE "data")
    /\ teamMetrics' = (IF resp.error # NoError THEN <<>> ELSE DataOrEmpty(resp.data))
    /\ lmLoading' = FALSE
    /\ UNCHANGED <<app, rangePreset, customStart, customEnd, rdVars, fnVars, exVars, lvVars>>

\* The controls are rendered only when loading is false (part_001:447-449).
SetRangePreset(v) ==
    /\ app = "latest"
    /\ ~lmLoading
    /\ v # rangePreset
    /\ rangePreset' = v
    /\ UNCHANGED <<app, teamMetrics, lmLoading, lmRead, customStart, customEnd,
                   rdVars, fnVars, exVars, lvVars>>

SetCustomStart(v) ==
    /\ app = "latest"
    /\ ~lmLoading
    /\ rangePreset = "custom"
    /\ v # customStart
    /\ customStart' = v
    /\ UNCHANGED <<app, teamMetrics, lmLoading, lmRead, rangePreset, customEnd,
                   rdVars, fnVars, exVars, lvVars>>

SetCustomEnd(v) ==
    /\ app = "latest"
    /\ ~lmLoading
    /\ rangePreset = "custom"
    /\ v # customEnd
    /\ customEnd' = v
    /\ UNCHANGED <<app, teamMetrics, lmLoading, lmRead, rangePreset, customStart,
                   rdVars, fnVars, exVars, lvVars>>

\* The latest-day dashboard after mount: the read is issued.
LdMounted ==
    /\ teamMetrics = <<>>
    /\ lmLoading = TRUE
    /\ lmRead = "pending"
    /\ rangePreset = "30"
    /\ customStart = EmptyStr
    /\ customEnd = EmptyStr

LdIdle ==
    /\ teamMetrics = <<>>
    /\ lmLoading = FALSE
    /\ lmRead = "none"
    /\ rangePreset = "30"
    /\ customStart = EmptyStr
    /\ customEnd = EmptyStr

\* The latest-day dashboard keeps no error state: the error branch of
\* loadMetrics only writes to the console (part_001:97-99), so the message
\* it can show is always empty.
lmLoadError == ""

\* The derived values of the latest-day dashboard in the current state.
rangeStart == Range(teamMetrics, rangePreset, customStart, customEnd).rangeStart
rangeEnd == Range(teamMetrics, rangePreset, customStart, customEnd).rangeEnd
MetricsInRange == metricsInRange(teamMetrics, rangeStart, rangeEnd)
LatestMetrics == latestMetrics(MetricsInRange)

(***************************************************************************)
(* The date filter of the daily-metrics dashboard (src/src/App.js:244-248) *)
(***************************************************************************)
filteredMetrics(rs, s, e) ==
    SelectSeq(rs, LAMBDA row :
        /\ ~(~Falsy(s) /\ JsLT(row.date, s))
        /\ ~(~Falsy(e) /\ JsGT(row.date, e)))

(***************************************************************************)
(* The helpers applied to drawn inputs.                                    *)
(***************************************************************************)
FnBounds == { EmptyStr, <<2023, 12, 19>>, <<2024, 1, 1>>, <<2024, 1, 2>> }

\* Rows of two employees, two of them of one employee with different
\* averages, from which the merged entries are built at a greater length,
\* and a row whose percentage ends in .5 (23 of 40).
MergePool ==
    { Row(<<2024, 1, 1>>, "c", Num(5), Num(10), Num(0)),
      Row(<<2024, 1, 1>>, "b", Num(5), Num(20), Num(1)),
      Row(<<2023, 12, 31>>, "c", Num(1), Num(0), Num(2)),
      Row(<<2024, 1, 1>>, "b", Num(40), Num(2), Num(17)) }

FnInputs ==
    /\ inRows \in SeqsUpTo(RowPool, MaxRows) \cup SeqsUpTo(MergePool, MaxMerged)
    /\ inStart \in FnBounds
    /\ inEnd \in FnBounds
    /\ out = [totals |-> Null]
    /\ step = "input"

FnIdle ==
    /\ inRows = <<>>
    /\ inStart = EmptyStr
    /\ inEnd = EmptyStr
    /\ out = [totals |-> Null]
    /\ step = "idle"

(***************************************************************************)
(* Delimited text (part_000:61-75, part_001:39-64).  A JavaScript string   *)
(* is the sequence of its characters; an object is the sequence of its     *)
(* [key, value] entries in insertion order, which is the order of          *)
(* Object.keys.                                                            *)
(***************************************************************************)
Quote == "\""
Comma == ","
Newline == "\n"

\* A string value.
Str(chars) == [kind |-> "str", val |-> chars]

\* The decimal digits of a natural number.
RECURSIVE DigitsOf(_)
DigitsOf(n) ==
    LET digit == <<"0", "1", "2", "3", "4", "5", "6", "7", "8", "9">>
    IN IF n < 10 THEN <<digit[n + 1]>> ELSE DigitsOf(n \div 10) \o <<digit[(n % 10) + 1]>>

\* String(v) for a string or an integer.
StringOf(v) ==
    IF v.kind = "str" THEN v.val
    ELSE IF v.val < 0 THEN <<"-">> \o DigitsOf(0 - v.val) ELSE DigitsOf(v.val)

\* /[",\n]/.test(s)
NeedsQuoting(s) == \E i \in 1..Len(s) : s[i] \in {Quote, Comma, Newline}

\* s.replace(/"/g, '""')
RECURSIVE DoubleQuotes(_)
DoubleQuotes(s) ==
    IF s = <<>> THEN <<>>
    ELSE (IF Head(s) = Quote THEN <<Quote, Quote>> ELSE <<Head(s)>>) \o DoubleQuotes(Tail(s))

\* The mutation of C20: the value is wrapped, its quotes are not doubled.
csvEscapeNoDoubling(value) ==
    LET s == IF value = Null THEN <<>> ELSE StringOf(value)
    IN IF NeedsQuoting(s) THEN <<Quote>> \o s \o <<Quote>> ELSE s

\* csvEscape (part_001:39-43)
csvEscape(value) ==
    LET s == IF value = Null THEN <<>> ELSE StringOf(value)
    IN IF NeedsQuoting(s) THEN <<Quote>> \o DoubleQuotes(s) \o <<Quote>> ELSE s

\* esc of toCSV (part_000:62-67)
esc(v) ==
    IF v = Null THEN <<>>
    ELSE LET s == StringOf(v)
         IN IF NeedsQuoting(s) THEN <<Quote>> \o DoubleQuotes(s) \o <<Quote>> ELSE s

\* parts.join(sep)
RECURSIVE Join(_, _)
Join(parts, sep) ==
    IF parts = <<>> THEN <<>>
    ELSE IF Len(parts) = 1 THEN parts[1]
    ELSE parts[1] \o sep \o Join(Tail(parts), sep)

\* r[h]: the value of key h, undefined (Null) when the object has no such key
RECURSIVE Get(_, _)
Get(r, h) ==
    IF r = <<>> THEN Null
    ELSE IF Head(r).key = h THEN Head(r).value ELSE Get(Tail(r), h)

\* Object.keys(r)
ObjectKeys(r) == [i \in 1..Len(r) |-> r[i].key]

\* toCSV(rows, headers) (part_000:61-75); a header is a string value
toCSV(rs, headers) ==
    LET head == Join([j \in 1..Len(headers) |-> esc(Str(headers[j]))], <<Comma>>)
        line(r) == Join([j \in 1..Len(headers) |-> esc(Get(r, headers[j]))], <<Comma>>)
    IN Join(<<head>> \o [i \in 1..Len(rs) |-> line(rs[i])], <<Newline>>)

\* exportCSV(rows, filename) up to the text it hands to the Blob
\* (part_001:45-54): nothing is produced for an empty array.
exportCSV(rs) ==
    IF Len(rs) = 0 THEN [produced |-> FALSE]
    ELSE LET columns == ObjectKeys(rs[1])
             header == Join(columns, <<Comma>>)
             body == Join([i \in 1..Len(rs) |->
                             Join([j \in 1..Len(columns) |->
                                      csvEscape(Get(rs[i], columns[j]))], <<Comma>>)],
                          <<Newline>>)
         IN [produced |-> TRUE, text |-> header \o <<Newline>> \o body]

\* `"${r[h] ?? ""}"`: the value between double quotes, as it is
quoted(v) == <<Quote>> \o (IF v = Null THEN <<>> ELSE StringOf(v)) \o <<Quote>>

\* downloadCSV(rows, filename) up to the text it hands to the Blob
\* (part_000:613-622, src/src/App.js:826-835): nothing is produced for an
\* empty array.
downloadCSV(rs) ==
    IF Len(rs) = 0 THEN [produced |-> FALSE]
    ELSE LET headers == ObjectKeys(rs[1])
             line(r) == Join([j \in 1..Len(headers) |-> quoted(Get(r, headers[j]))],
                             <<Comma>>)
         IN [produced |-> TRUE,
             text |-> Join(<<Join(headers, <<Comma>>)>>
                           \o [i \in 1..Len(rs) |-> line(rs[i])], <<Newline>>)]

\* The labels of the raw export (part_000:337).
DateLabel == <<"d", "a", "t", "e">>
EmailLabel == <<"e", "m", "p", "l", "o", "y", "e", "e", "_", "e", "m", "a", "i", "l">>
ResponsesLabel ==
    <<"t", "o", "t", "a", "l", "_", "f", "i", "r", "s", "t", "_", "r", "e", "s", "p", "o", "n", "s", "e", "s">>
AverageLabel ==
    <<"a", "v", "g", "_", "f", "i", "r", "s", "t", "_", "r", "e", "s", "p", "o", "n", "s", "e", "_", "m", "i", "n", "u", "t", "e", "s">>
BreachesLabel == <<"s", "l", "a", "_", "b", "r", "e", "a", "c", "h", "e", "s">>
RawHeaders == <<DateLabel, EmailLabel, ResponsesLabel, AverageLabel, BreachesLabel>>

\* Two decimal digits.
Pad2(n) == IF n < 10 THEN <<"0">> \o DigitsOf(n) ELSE DigitsOf(n)

\* The date string "YYYY-MM-DD" of a row as a value; null stays null, the
\* empty string is the empty string.
DateValue(d) ==
    IF d = NullDate THEN Null
    ELSE IF d = EmptyStr THEN Str(<<>>)
    ELSE Str(DigitsOf(d[1]) \o <<"-">> \o Pad2(d[2]) \o <<"-">> \o Pad2(d[3]))

\* The object exportRaw makes of a row (part_000:329-336).
RawObject(r) ==
    << [key |-> DateLabel, value |-> DateValue(r.date)],
       [key |-> EmailLabel, value |-> Str(IF r.employee_email = "" THEN <<>>
                                          ELSE <<r.employee_email>>)],
       [key |-> ResponsesLabel, value |-> Num(OrZero(r.total_first_responses))],
       [key |-> AverageLabel,
        value |-> IF IsNumber(r.avg_first_response_minutes)
                  THEN r.avg_first_response_minutes ELSE Str(<<>>)],
       [key |-> BreachesLabel, value |-> Num(OrZero(r.sla_breaches))] >>

\* exportRaw (part_000:327-340): the text is always handed to downloadText,
\* which triggers the download (part_000:49-59).
exportRaw(rs) ==
    [ downloaded |-> TRUE,
      text |-> toCSV([i \in 1..Len(rs) |-> RawObject(rs[i])], RawHeaders) ]

\* The column labels of the tables, and the order in which toCSV is asked
\* for them.
IdLabel == <<"i", "d">>
NoteLabel == <<"n", "o", "t", "e">>
ExportHeaders == <<NoteLabel, IdLabel>>

\* The values a cell of the table can hold: null, numbers, and strings
\* without and with a comma, a double quote, a newline.
CellValues ==
    { Null, Num(0), Num(12), Str(<<>>), Str(<<"a", "b">>), Str(<<"a", Comma, "b">>),
      Str(<<Quote, "a", Quote>>), Str(<<"a", Newline, "b">>) }

\* One object of the table: { id, note }.
Object(id, note) == << [key |-> IdLabel, value |-> id], [key |-> NoteLabel, value |-> note] >>

ObjectPool == { Object(Num(7), v) : v \in CellValues }

ExInputs ==
    /\ table \in SeqsUpTo(ObjectPool, MaxRows)
    /\ csv = [state |-> "none"]

ExIdle ==
    /\ table = <<>>
    /\ csv = [state |-> "none"]

\* An export: the table is serialized by both serializers.
Export ==
    /\ app = "export"
    /\ csv.state = "none"
    /\ csv' = [ state |-> "done",
                toCSV |-> toCSV(table, ExportHeaders),
                exportCSV |-> exportCSV(table),
                downloadCSV |-> downloadCSV(table) ]
    /\ UNCHANGED <<app, table, rdVars, ldVars, fnVars, lvVars>>

(***************************************************************************)
(* Employee-merge dashboard (part_000:638-759): the loaded metrics are     *)
(* merged into the list of client-facing employees and the team KPIs are   *)
(* computed from the merged entries.                                       *)
(***************************************************************************)
\* The addresses of the employees read from the employees table.
ClientFacing == <<"a", "b", "c">>

RECURSIVE WeightedSum(_)
\* rows.reduce((s, r) => s + r.avg_first_response_minutes *
\* r.total_first_responses, 0): a null factor counts as 0.
WeightedSum(rs) ==
    IF rs = <<>> THEN 0
    ELSE OrZero(Head(rs).avg_first_response_minutes) * OrZero(Head(rs).total_first_responses)
         + WeightedSum(Tail(rs))

\* One entry of byEmployee (part_000:679-721); avg_response is rounded to an
\* integer, and is the dash when the weighted average is null or 0.
MergedEntry(email, metrics) ==
    LET rs == SelectSeq(metrics, LAMBDA r : r.employee_email = email)
        total == SumResponses(rs)
        breaches == SumBreaches(rs)
    IN [ employee_email |-> email,
         total_first_responses |-> total,
         avg_response |-> IF total > 0 /\ WeightedSum(rs) # 0
                          THEN Num(RoundDiv(WeightedSum(rs), total)) ELSE Dash,
         sla_breaches |-> breaches,
         sla_percent |-> RoundedPercent(total, breaches) ]

\* byEmployee (part_000:678-722)
byEmployee(employees, metrics) ==
    [i \in 1..Len(employees) |-> MergedEntry(employees[i], metrics)]

RECURSIVE SumOfRoundedAverages(_)
\* byEmployee.reduce((s, e) => s + (e.avg_response === "—" ? 0 :
\* e.avg_response * e.total_first_responses), 0)
SumOfRoundedAverages(es) ==
    IF es = <<>> THEN 0
    ELSE (IF Head(es).avg_response = Dash THEN 0
          ELSE Head(es).avg_response.val * Head(es).total_first_responses)
         + SumOfRoundedAverages(Tail(es))

RECURSIVE SumEntries(_, _)
\* byEmployee.reduce((s, e) => s + e[f], 0)
SumEntries(es, f) == IF es = <<>> THEN 0 ELSE Head(es)[f] + SumEntries(Tail(es), f)

\* teamTotals (part_000:727-759, src/src/App.js:940-970)
teamTotals(es) ==
    LET total == SumEntries(es, "total_first_responses")
        breaches == SumEntries(es, "sla_breaches")
    IN [ total |-> total,
         avg |-> IF total > 0 THEN Num(RoundDiv(SumOfRoundedAverages(es), total)) ELSE Dash,
         sla |-> RoundedPercent(total, breaches) ]

\* What the aggregators and the raw export return for rows rs and the
\* range from s to e.
aggregate(rs, s, e) ==
    [ totals |-> totals(rs),
      avgResponse |-> avgResponse(rs),
      metricsInRange |-> metricsInRange(rs, s, e),
      filteredMetrics |-> filteredMetrics(rs, s, e),
      slaPercent |-> slaPercent(rs),
      perEmployee |-> perEmployee(rs),
      perEmployeeOfRange |-> perEmployeeOfRange(rs),
      days |-> days(s, e),
      dayEmployeeMap |-> dayEmployeeMap(rs, days(s, e)),
      trendData |-> trendData(days(s, e), dayEmployeeMap(rs, days(s, e)),
                              topEmployees(perEmployeeOfRange(rs), TopN)),
      heatCells |-> heatCells(rs, s, e),
      dailyTrend |-> dailyTrend(metricsInRange(rs, s, e)),
      heatmap |-> heatmap(metricsInRange(rs, s, e)),
      heatmapCells |-> heatmapCells(heatmap(metricsInRange(rs, s, e))),
      exportRaw |-> exportRaw(rs),
      byEmployee |-> byEmployee(ClientFacing, rs),
      teamTotals |-> teamTotals(byEmployee(ClientFacing, rs)) ]

\* The arrays after the aggregators ran on the heap h, r referring to the
\* rows.  totals, avgResponse, slaPercent, dayEmployeeMap, heatCells and
\* the loops of the others only read the rows (reduce, for..of); .filter
\* and .map return new arrays; .sort is called in perEmployee, on the array
\* of its summaries (part_000:249, part_001:280), and on the new arrays
\* that dailyTrend builds with Object.values(acc) (part_001:297) and
\* heatmap with Array.from(..) (part_001:356-362), which are added here as
\* they are returned, sorted.
aggregateOnHeap(h, r, s, e) ==
    LET h1 == perEmployeeOfRangeOnHeap(h, r)
        h2 == perEmployeeOnHeap(h1, r)
        h3 == NewArray(h2, metricsInRange(h2[r], s, e))
        mir == Len(h3)
        h4 == NewArray(h3, dailyTrend(h3[mir]))
        h5 == NewArray(NewArray(h4, heatmap(h4[mir]).dates), heatmap(h4[mir]).employees)
    IN h5

\* The row array after the aggregators ran.
rowsAfterAggregation(rs, s, e) == aggregateOnHeap(<<rs>>, 1, s, e)[1]

\* The helpers are applied to the drawn rows and range.
Apply ==
    /\ app = "helpers"
    /\ step = "input"
    /\ step' = "done"
    /\ out' = aggregate(inRows, inStart, inEnd)
    /\ inRows' = rowsAfterAggregation(inRows, inStart, inEnd)
    /\ UNCHANGED <<app, inStart, inEnd, rdVars, ldVars, exVars, lvVars>>

\* They are applied a second time (a re-render recomputes the memos), to
\* the row array as the first run left it; both results are kept.
Reapply ==
    /\ app = "helpers"
    /\ step = "done"
    /\ step' = "twice"
    /\ out' = [ first |-> out, second |-> aggregate(inRows, inStart, inEnd) ]
    /\ inRows' = rowsAfterAggregation(inRows, inStart, inEnd)
    /\ UNCHANGED <<app, inStart, inEnd, rdVars, ldVars, exVars, lvVars>>

(***************************************************************************)
(* Live-subscription dashboard (src/src/App.js:16-154).  An email is its   *)
(* client address and its age in days at the time of the session; the      *)
(* feed answers every read with the rows of the table at the time the read *)
(* was issued.                                                             *)
(***************************************************************************)
DayOptions == {7, 14, 30, 60}
DefaultDays == 30

TrackedPool ==
    { [client_email |-> "x", age |-> 3], [client_email |-> "y", age |-> 10] }

RECURSIVE NewestFirst(_)
\* .order("received_at", { ascending: false })
NewestFirst(S) ==
    IF S = {} THEN <<>>
    ELSE LET e == CHOOSE x \in S : \A y \in S : x.age <= y.age
         IN <<e>> \o NewestFirst(S \ {e})

\* The unanswered emails received since `d` days ago, newest first
\* (src/src/App.js:37-47).
TrackedSince(tbl, d) == NewestFirst({ e \in tbl : e.age <= d })

\* What the awaited read can resolve to: the rows, or no data when the
\* read failed (the error of the response is not read, src/src/App.js:40).
LvResponses(read) == { Data(read.data), Null }

\* load (src/src/App.js:35-47), up to the await: loading is set and the
\* read is issued, for the value of days the closure holds.  It is called
\* from an effect or from the callback of the subscription, so the render
\* of loading is queued.
load(tbl, d) ==
    /\ liveLoading' = TRUE
    /\ liveReads' = Append(liveReads, [data |-> TrackedSince(tbl, d)])

\* The select is on screen when the last committed render saw loading
\* false (src/src/App.js:90,98-107).  The handler sets days, the render of
\* it commits in the same task, and the effect of [days] calls load and
\* subscribes anew (src/src/App.js:21-33).
SetDays(d) ==
    /\ app = "live"
    /\ liveShown
    /\ d # liveDays
    /\ Len(liveReads) < MaxInFlight
    /\ liveDays' = d
    /\ load(tracked, d)
    /\ UNCHANGED <<app, tracked, liveRows, liveShown, rdVars, ldVars, fnVars, exVars>>

\* A change of the table, an insert or a delete of the email e, reaches the
\* subscription, whose callback is load (src/src/App.js:23-30).
TableChange(e) ==
    /\ app = "live"
    /\ Len(liveReads) < MaxInFlight
    /\ tracked' = IF e \in tracked THEN tracked \ {e} ELSE tracked \cup {e}
    /\ load(tracked', liveDays)
    /\ UNCHANGED <<app, liveDays, liveRows, liveShown, rdVars, ldVars, fnVars, exVars>>

\* The read at position i resolves: the rest of load runs,
\* setRows(data || []) and setLoading(false) (src/src/App.js:49-50).
LoadResolve(i, data) ==
    /\ app = "live"
    /\ liveRows' = DataOrEmpty(data)
    /\ liveLoading' = FALSE
    /\ liveReads' = RemoveAt(liveReads, i)
    /\ UNCHANGED <<app, tracked, liveDays, liveShown, rdVars, ldVars, fnVars, exVars>>

\* The render of the queued updates commits, in a task of its own:
\* `if (loading) return ...` (src/src/App.js:90).
LvRender ==
    /\ app = "live"
    /\ liveShown # ~liveLoading
    /\ liveShown' = ~liveLoading
    /\ UNCHANGED <<app, tracked, liveDays, liveRows, liveLoading, liveReads,
                   rdVars, ldVars, fnVars, exVars>>

\* The state after the first render and its effect
\* (src/src/App.js:17-22).
LvMounted ==
    /\ tracked \in SUBSET TrackedPool
    /\ liveDays = DefaultDays
    /\ liveRows = <<>>
    /\ liveLoading = TRUE
    /\ liveReads = <<[data |-> TrackedSince(tracked, DefaultDays)]>>
    /\ liveShown = FALSE

LvIdle ==
    /\ tracked = {}
    /\ liveDays = DefaultDays
    /\ liveRows = <<>>
    /\ liveLoading = FALSE
    /\ liveReads = <<>>
    /\ liveShown = FALSE

(***************************************************************************)
(* Specification: one of the variants is mounted and runs.                 *)
(***************************************************************************)
Init ==
    \/ (app = "range" /\ RdMounted /\ LdIdle /\ FnIdle /\ ExIdle /\ LvIdle)
    \/ (app = "latest" /\ RdIdle /\ LdMounted /\ FnIdle /\ ExIdle /\ LvIdle)
    \/ (app = "helpers" /\ RdIdle /\ LdIdle /\ FnInputs /\ ExIdle /\ LvIdle)
    \/ (app = "export" /\ RdIdle /\ LdIdle /\ FnIdle /\ ExInputs /\ LvIdle)
    \/ (app = "live" /\ RdIdle /\ LdIdle /\ FnIdle /\ ExIdle /\ LvMounted)

Next ==
    \/ \E v \in Presets : SetPreset(v)
    \/ \E v \in DateInputs : SetStartDate(v)
    \/ \E v \in DateInputs : SetEndDate(v)
    \/ Render
    \/ Passive
    \/ \E i \in 1..Len(reads) : \E resp \in Responses(reads[i].start, reads[i].end) :
          ResolveRead(i, resp)
    \/ \E resp \in LdResponses : LoadMetricsResolve(resp)
    \/ \E v \in LdPresets : SetRangePreset(v)
    \/ \E v \in LdInputs : SetCustomStart(v)
    \/ \E v \in LdInputs : SetCustomEnd(v)
    \/ Apply
    \/ Reapply
    \/ Export
    \/ \E d \in DayOptions : SetDays(d)
    \/ \E e \in TrackedPool : TableChange(e)
    \/ \E i \in 1..Len(liveReads) : \E data \in LvResponses(liveReads[i]) :
          LoadResolve(i, data)
    \/ LvRender

Spec == Init /\ [][Next]_vars

\* Some read of the range dashboard in flight resolves.
SomeReadResolves ==
    \E i \in 1..Len(reads) : \E resp \in Responses(reads[i].start, reads[i].end) :
        ResolveRead(i, resp)

\* The runs in which a pending render commits, the effects of a commit run
\* and a read in flight is answered, with data or with an error: React
\* commits the render of every state update and runs the effects of every
\* commit, and the awaited read settles.
FairSpec == Spec /\ WF_vars(Render) /\ WF_vars(Passive) /\ WF_vars(SomeReadResolves)

(***************************************************************************)
(* Properties.                                                             *)
(***************************************************************************)
\* The read of the active range has not resolved yet.
CurrentPending == \E i \in 1..Len(reads) : ~reads[i].cancelled

\* Both bounds are set and in order (stated on the strings themselves).
WellFormed(s, e) == s # EmptyStr /\ e # EmptyStr /\ ~StrLT(e, s)

\* The number of days from date a to date b.
DaysBetween(a, b) == DayNumber(b) - DayNumber(a)

\* No change of the dates waits for its render or for the effects of its
\* commit: the load effect has run for the range of the state.
RangeRendered == <<startDate, endDate>> = committed /\ committed = effectDeps

RowsAreOfActiveRange ==
    (app = "range" /\ ~CurrentPending /\ RangeRendered /\ WellFormed(startDate, endDate))
    => IF loadError = "" THEN rows = Query(startDate, endDate) ELSE rows = <<>>

\* A read that resolves when the range of the state is no longer the range
\* it was issued for writes nothing.
ReplacedRangeWritesNothing ==
    [][ \A i \in 1..Len(reads) :
          (/\ app = "range"
           /\ reads' = RemoveAt(reads, i)
           /\ <<reads[i].start, reads[i].end>> # <<startDate, endDate>>)
          => UNCHANGED <<rows, loading, loadError>> ]_vars

StaleReadWritesNothing ==
    [][ \A i \in 1..Len(reads) :
          (reads[i].cancelled /\ reads' = RemoveAt(reads, i))
          => UNCHANGED <<rows, loading, loadError>> ]_vars

\* C1 (as claimed): a read issued for a range that has been replaced since
\* writes nothing when it resolves (rows, loading and loadError stay as they
\* were), be it cancelled by a later run of the load effect or replaced by
\* dates whose render is still queued; and once the read of the active
\* range has resolved rows is the result of that read (empty when it
\* failed), whichever order the reads resolve in.
C1_StaleReadsDiscarded ==
    /\ []RowsAreOfActiveRange
    /\ StaleReadWritesNothing
    /\ ReplacedRangeWritesNothing

\* C2: whenever the selected range, the one of the committed render, is
\* invalid (a bound is empty or the start is after the end) the list of
\* days is empty, and once the load effect has run for it no read of it is
\* in flight, rows is empty, loading is false and the invalid-range message
\* is set; no read is ever in flight for an invalid range.
C2_InvalidRangeSignalled ==
    (app = "range" /\ ~WellFormed(committed[1], committed[2]))
    => /\ days(committed[1], committed[2]) = <<>>
       /\ \A i \in 1..Len(reads) : WellFormed(reads[i].start, reads[i].end)
       /\ effectDeps = committed
          => /\ rows = <<>>
             /\ ~loading
             /\ loadError = InvalidRangeMsg
             /\ loadError # ""
             /\ \A i \in 1..Len(reads) : reads[i].cancelled

\* C2 witness: the start was moved behind the end while a read was in flight.
C2_Witness ==
    /\ app = "range"
    /\ RangeRendered
    /\ startDate # EmptyStr
    /\ endDate # EmptyStr
    /\ StrLT(endDate, startDate)
    /\ loadError = InvalidRangeMsg
    /\ Len(reads) > 0

\* C3 (as claimed): a failed read is surfaced as an error state: rows empty,
\* a non-empty error message, loading false, and no read in flight for the
\* unchanged range.
C3_FailureSurfaced ==
    /\ (app = "range" /\ loadError \notin {"", InvalidRangeMsg})
       => (rows = <<>> /\ ~loading /\ ~CurrentPending)
    /\ (app = "latest" /\ lmRead = "error")
       => (teamMetrics = <<>> /\ ~lmLoading /\ lmLoadError # "")

\* The dated rows of the latest-day dashboard and the anchor: the greatest
\* date among them.
HasDates == \E i \in 1..Len(teamMetrics) : teamMetrics[i].date \notin {EmptyStr, NullDate}
IsAnchor(d) ==
    /\ \E i \in 1..Len(teamMetrics) : teamMetrics[i].date = d
    /\ \A i \in 1..Len(teamMetrics) :
          teamMetrics[i].date \notin {EmptyStr, NullDate} => StrLE(teamMetrics[i].date, d)

\* The inclusive window from s to e has exactly n calendar days and starts
\* n - 1 days before e.
WindowOf(s, e, n) ==
    /\ DaysBetween(s, e) = n - 1
    /\ Len(dateRangeInclusive(s, e)) = n
    /\ dateRangeInclusive(s, e)[1] = s
    /\ dateRangeInclusive(s, e)[n] = e

PresetDays(p) == CASE p = "7" -> 7 [] p = "14" -> 14 [] p = "30" -> 30 [] p = "60" -> 60

\* C4: under a numeric preset N the range ends at the anchor (today in the
\* range dashboard, the most recent date of the data in the latest-day
\* dashboard) and starts N - 1 days before it: the window has N days.
C4_PresetWindowHasNDays ==
    /\ (app = "range" /\ preset # "custom")
       => (endDate = todayISO /\ WindowOf(startDate, endDate, PresetDays(preset)))
    /\ (app = "latest" /\ rangePreset # "custom" /\ HasDates)
       => (IsAnchor(rangeEnd) /\ WindowOf(rangeStart, rangeEnd, PresetDays(rangePreset)))

\* C4 witness: the 60-day preset selected on 2024-03-01 reaches back over
\* the leap day to 2024-01-02.
C4_Witness ==
    /\ app = "range"
    /\ preset = "60"
    /\ todayISO = <<2024, 3, 1>>
    /\ startDate = <<2024, 1, 2>>
    /\ endDate = <<2024, 3, 1>>

\* C5: in custom mode of the latest-day dashboard with dated rows loaded:
\* with both bounds supplied the range is (min, max) of the two; with a bound
\* missing it is the 30-day window that ends at the anchor.
C5_CustomRange ==
    (app = "latest" /\ rangePreset = "custom" /\ HasDates)
    => IF customStart # EmptyStr /\ customEnd # EmptyStr
       THEN /\ {rangeStart, rangeEnd} = {customStart, customEnd}
            /\ ~StrLT(rangeEnd, rangeStart)
       ELSE /\ IsAnchor(rangeEnd)
            /\ WindowOf(rangeStart, rangeEnd, 30)

\* C5 witness: custom mode with only the start supplied falls back to the
\* 30 days that end on 2024-01-02.
C5_Witness ==
    /\ app = "latest"
    /\ rangePreset = "custom"
    /\ customStart # EmptyStr
    /\ customEnd = EmptyStr
    /\ rangeStart = <<2023, 12, 4>>
    /\ rangeEnd = <<2024, 1, 2>>

\* C6: whenever the resolver of the latest-day dashboard yields a range,
\* rangeStart <= rangeEnd.
C6_RangeOrdered ==
    (app = "latest" /\ rangeStart # NullDate /\ rangeEnd # NullDate)
    => (rangeStart # EmptyStr /\ ~StrLT(rangeEnd, rangeStart))

\* C6 witness: the custom bounds were typed in the wrong order and the
\* resolver has swapped them.
C6_Witness ==
    /\ app = "latest"
    /\ rangePreset = "custom"
    /\ customStart = <<2024, 1, 2>>
    /\ customEnd = <<2023, 12, 31>>
    /\ rangeStart = customEnd
    /\ rangeEnd = customStart

\* C7: with an empty loaded row set the resolver yields no range and every
\* derived result is empty or the dash.
C7_EmptyRowSet ==
    (app = "latest" /\ lmRead \in {"data", "error"} /\ teamMetrics = <<>>)
    => /\ rangeStart = NullDate
       /\ rangeEnd = NullDate
       /\ MetricsInRange = <<>>
       /\ LatestMetrics = <<>>
       /\ perEmployee(LatestMetrics) = <<>>
       /\ dailyTrend(MetricsInRange) = <<>>
       /\ heatmap(MetricsInRange).dates = <<>>
       /\ heatmap(MetricsInRange).employees = <<>>
       /\ DOMAIN heatmap(MetricsInRange).lookup = {}
       /\ heatmap(MetricsInRange).maxBreaches = 0
       /\ avgResponse(LatestMetrics) = Dash
       /\ slaPercent(LatestMetrics) = Dash

\* C7 witness: the feed returned no rows and a custom range was typed.
C7_Witness ==
    /\ app = "latest"
    /\ lmRead = "data"
    /\ teamMetrics = <<>>
    /\ rangePreset = "custom"
    /\ customStart # EmptyStr
    /\ customEnd # EmptyStr

\* The rows of rs, in order, whose date d satisfies s <= d <= e as strings.
Window(rs, s, e) ==
    SelectSeq(rs, LAMBDA r : r.date # NullDate /\ (s = r.date \/ StrLT(s, r.date))
                                              /\ (r.date = e \/ StrLT(r.date, e)))

\* C8 (as claimed), on rows that all have a date: the row filter returns
\* exactly the rows whose date d satisfies start <= d <= end, in their order;
\* metricsInRange is given a range that the resolver yielded (both bounds),
\* filteredMetrics the two date states as they are.
C8_FilterIsWindow ==
    (step = "done" /\ \A i \in 1..Len(inRows) : inRows[i].date # NullDate)
    => /\ (inStart # EmptyStr /\ inEnd # EmptyStr)
          => out.metricsInRange = Window(inRows, inStart, inEnd)
       /\ out.filteredMetrics = Window(inRows, inStart, inEnd)

\* C8 (amended): with both bounds supplied the two filters return, in their
\* order, exactly the dated rows with start <= d <= end; with a bound missing
\* metricsInRange returns no row while filteredMetrics leaves that side
\* open; filteredMetrics moreover keeps the rows that have no date.
C8_FilterWithOpenBounds ==
    step = "done"
    => /\ out.metricsInRange =
             (IF inStart = EmptyStr \/ inEnd = EmptyStr THEN <<>>
              ELSE Window(inRows, inStart, inEnd))
       /\ out.filteredMetrics =
             SelectSeq(inRows, LAMBDA r :
                 \/ r.date = NullDate
                 \/ /\ (inStart = EmptyStr \/ inStart = r.date \/ StrLT(inStart, r.date))
                    /\ (inEnd = EmptyStr \/ r.date = inEnd \/ StrLT(r.date, inEnd)))

\* C8 witness: a one-day window kept one of two dated rows and dropped the
\* other, in both filters.
C8_Witness ==
    /\ step = "done"
    /\ inStart = <<2024, 1, 1>>
    /\ inEnd = <<2024, 1, 1>>
    /\ Len(inRows) = 2
    /\ \A i \in 1..2 : inRows[i].date # NullDate
    /\ Len(out.metricsInRange) = 1
    /\ out.filteredMetrics = out.metricsInRange

\* A count that is missing is 0.
CountOf(v) == IF v = Null THEN 0 ELSE v.val

RECURSIVE SumColumn(_, _, _)
\* The sum of column f over the first n rows of rs.
SumColumn(rs, f, n) ==
    IF n = 0 THEN 0 ELSE SumColumn(rs, f, n - 1) + CountOf(rs[n][f])

\* C9: the team totals are the sums of the response counts and of the breach
\* counts over all rows, a missing count being 0.
C9_TotalsAreSums ==
    step = "done"
    => /\ out.totals.totalResponses = SumColumn(inRows, "total_first_responses", Len(inRows))
       /\ out.totals.totalBreaches = SumColumn(inRows, "sla_breaches", Len(inRows))

\* C9 witness: totals taken over rows of which one has no counts.
C9_Witness ==
    /\ step = "done"
    /\ \E i \in 1..Len(inRows) :
          inRows[i].total_first_responses = Null /\ inRows[i].sla_breaches = Null
    /\ out.totals.totalResponses > 0
    /\ out.totals.totalBreaches > 0

\* The rows that enter the weighted average.
Qualifies(r) ==
    /\ r.avg_first_response_minutes # Null
    /\ r.total_first_responses # Null
    /\ r.total_first_responses.val > 0

RECURSIVE Numerator(_, _)
Numerator(rs, n) ==
    IF n = 0 THEN 0
    ELSE Numerator(rs, n - 1)
         + (IF Qualifies(rs[n])
            THEN rs[n].avg_first_response_minutes.val * rs[n].total_first_responses.val
            ELSE 0)

RECURSIVE Denominator(_, _)
Denominator(rs, n) ==
    IF n = 0 THEN 0
    ELSE Denominator(rs, n - 1)
         + (IF Qualifies(rs[n]) THEN rs[n].total_first_responses.val ELSE 0)

\* v is num / den rounded to one decimal (v in tenths, a half rounds up):
\* v - 1/2 <= 10 * num / den < v + 1/2.
IsRoundedToTenths(v, num, den) ==
    /\ v.kind = "num"
    /\ (2 * v.val - 1) * den <= 20 * num
    /\ 20 * num < (2 * v.val + 1) * den

IsWeightedAverage(v, rs) ==
    IF Denominator(rs, Len(rs)) = 0
    THEN v = Dash /\ v # Num(0)
    ELSE IsRoundedToTenths(v, Numerator(rs, Len(rs)), Denominator(rs, Len(rs)))

ExampleRows ==
    << Row(<<2024, 1, 1>>, "a", Num(10), Num(5), Num(2)),
       Row(<<2024, 1, 1>>, "b", Num(5), Num(20), Num(1)) >>

\* C10: the team average (totals.avgMinutes of the range dashboard,
\* avgResponse of the latest-day dashboard) is the volume-weighted average
\* over the rows with an average and a count > 0, rounded to one decimal; it
\* is the dash, never 0, when no row qualifies; the two example rows give 10.0.
C10_WeightedAverage ==
    step = "done"
    => /\ IsWeightedAverage(out.totals.avgMinutes, inRows)
       /\ IsWeightedAverage(out.avgResponse, inRows)
       /\ inRows = ExampleRows
          => (out.totals.avgMinutes = Num(100) /\ out.avgResponse = Num(100))

\* C10 witness: the average of the first example row and a row that has a
\* count of 10 but no average is 5.0.
C10_Witness ==
    /\ step = "done"
    /\ Len(inRows) = 2
    /\ inRows[1] = ExampleRows[1]
    /\ inRows[2].avg_first_response_minutes = Null
    /\ inRows[2].total_first_responses = Num(10)
    /\ out.totals.avgMinutes = Num(50)
    /\ out.avgResponse = Num(50)

(***************************************************************************)
(* C11 .. C20: percentages, per-employee summaries, daily series, heatmap  *)
(* and the delimited-text serializer.                                      *)
(***************************************************************************)
\* The responses and the breaches of the rows the helpers were applied to.
Responded == SumColumn(inRows, "total_first_responses", Len(inRows))
Breached == SumColumn(inRows, "sla_breaches", Len(inRows))

\* Every row the helpers were applied to has a date.
AllDated == \A i \in 1..Len(inRows) : inRows[i].date # NullDate

\* p is num / den (den > 0) rounded to the nearest integer, a half going up.
IsRounded(p, num, den) == 2 * p * den <= 2 * num + den /\ 2 * num + den < 2 * (p + 1) * den

\* v is the percentage of the responses that did not breach, rounded, a half
\* going up.
IsPercentOf(v, responses, breaches) ==
    /\ v.kind = "num"
    /\ IsRounded(v.val, 100 * (responses - breaches), responses)

\* C11 (as claimed, where the percentage is not negative): slaPercent is
\* round(100 * (responses - breaches) / responses), a half going up as
\* Math.round takes it, whenever responses > 0 and breaches <= responses,
\* and the dash whenever responses = 0, in the range dashboard
\* (totals.slaPercent) and in the latest-day dashboard (slaPercent).
C11_SlaPercentIsRounded ==
    (step = "done" /\ AllDated)
    => /\ (Responded > 0 /\ Breached <= Responded)
          => /\ IsPercentOf(out.totals.slaPercent, Responded, Breached)
             /\ IsPercentOf(out.slaPercent, Responded, Breached)
       /\ Responded = 0
          => (out.totals.slaPercent = Dash /\ out.slaPercent = Dash)

\* A percentage is the dash or lies in [0, 100].
InPercentRange(v) == v = Dash \/ (v.kind = "num" /\ 0 <= v.val /\ v.val <= 100)

\* C12: every team and per-employee slaPercent that is not the dash lies in
\* [0, 100], in the range dashboard (totals, perEmployee) and in the
\* latest-day dashboard (slaPercent, perEmployee), also for rows whose
\* breaches exceed their responses.
C12_PercentInRange ==
    (step = "done" /\ AllDated)
    => /\ InPercentRange(out.totals.slaPercent)
       /\ \A i \in 1..Len(out.perEmployeeOfRange) :
             InPercentRange(out.perEmployeeOfRange[i].sla_percent)
       /\ InPercentRange(out.slaPercent)
       /\ \A i \in 1..Len(out.perEmployee) :
             InPercentRange(out.perEmployee[i].sla_percent)

RECURSIVE SumOver(_, _, _)
\* The sum of field f over the first n summaries of xs.
SumOver(xs, f, n) == IF n = 0 THEN 0 ELSE SumOver(xs, f, n - 1) + xs[n][f]

\* C13: for a non-empty row set the team totals of responses and of
\* breaches are the sums over the per-employee summaries, also when rows
\* have no employee address.
C13_TeamIsSumOfEmployees ==
    (step = "done" /\ AllDated /\ Len(inRows) > 0)
    => /\ out.totals.totalResponses =
             SumOver(out.perEmployeeOfRange, "total_first_responses",
                     Len(out.perEmployeeOfRange))
       /\ out.totals.totalBreaches =
             SumOver(out.perEmployeeOfRange, "sla_breaches", Len(out.perEmployeeOfRange))
       /\ totalResponses(inRows) =
             SumOver(out.perEmployee, "total_first_responses", Len(out.perEmployee))
       /\ totalBreaches(inRows) =
             SumOver(out.perEmployee, "sla_breaches", Len(out.perEmployee))

\* The rows of one employee, in their order.
RowsOf(email) == SelectSeq(inRows, LAMBDA r : r.employee_email = email)

\* A per-employee summary follows the formulas of the team totals over the
\* rows of its employee: every row counts in the responses and breaches,
\* and the average is the weighted average of the rows that have one.
IsSummaryOfEmployee(e) ==
    LET rs == RowsOf(e.employee_email)
    IN /\ e.total_first_responses = SumColumn(rs, "total_first_responses", Len(rs))
       /\ e.sla_breaches = SumColumn(rs, "sla_breaches", Len(rs))
       /\ IsWeightedAverage(e.avg_response, rs)

\* C14: the per-employee summaries use the weighted-average formula of the
\* team totals: a row without average adds to the employee's responses and
\* breaches and is left out of the numerator and of the denominator of the
\* employee's average (rows {10, 5} and {10, missing} average 5.0).
C14_EmployeeWeightedAverage ==
    (step = "done" /\ AllDated)
    => /\ \A i \in 1..Len(out.perEmployeeOfRange) :
             IsSummaryOfEmployee(out.perEmployeeOfRange[i])
       /\ \A i \in 1..Len(out.perEmployee) :
             IsSummaryOfEmployee(out.perEmployee[i])

\* The employees of the rows the helpers were applied to.
Employees == { inRows[i].employee_email : i \in 1..Len(inRows) } \ {""}

\* The addresses in alphabetical order.
EmailBefore(a, b) ==
    LET rank == [e \in {"a", "b", "c"} |-> CASE e = "a" -> 1 [] e = "b" -> 2 [] e = "c" -> 3]
    IN rank[a] < rank[b]

\* One summary per employee, by descending responses, equal responses by
\* ascending address.
IsRanking(pe) ==
    /\ { pe[i].employee_email : i \in 1..Len(pe) } = Employees
    /\ Len(pe) = Cardinality(Employees)
    /\ \A i \in 1..Len(pe) : \A j \in (i + 1)..Len(pe) :
          \/ pe[i].total_first_responses > pe[j].total_first_responses
          \/ /\ pe[i].total_first_responses = pe[j].total_first_responses
             /\ EmailBefore(pe[i].employee_email, pe[j].employee_email)

\* C15: the per-employee summaries hold exactly one entry per employee of
\* the rows and are sorted by descending responses, ties by ascending
\* employee address, whatever the order of the rows (the rows are taken in
\* an order the feed can deliver: by descending date).
C15_EmployeesRanked ==
    (step = "done" /\ AllDated /\ DateDescending(inRows))
    => (IsRanking(out.perEmployeeOfRange) /\ IsRanking(out.perEmployee))

\* The range the helpers were given is valid: two dates, start <= end.
ValidRange == inStart # EmptyStr /\ inEnd # EmptyStr /\ StrLE(inStart, inEnd)

\* The rows are rows the dashboard holds for the range: dated, ordered by
\* descending date, inside the range.
RowsOfRange ==
    /\ AllDated
    /\ DateDescending(inRows)
    /\ \A i \in 1..Len(inRows) : StrLE(inStart, inRows[i].date) /\ StrLE(inRows[i].date, inEnd)

\* The dates ds are the calendar days from s to e, each once, ascending.
IsEveryDay(ds, s, e) ==
    /\ Len(ds) = DaysBetween(s, e) + 1
    /\ \A i \in 1..Len(ds) : DayNumber(ds[i]) = DayNumber(s) + i - 1

\* No row of the given rows has date d.
NoRowOn(d) == \A i \in 1..Len(inRows) : inRows[i].date # d

\* C16: for a valid range and any rows of it the daily series has
\* daysBetween(start, end) + 1 entries, one per calendar day, ascending, and
\* a day without rows is an entry of zeros: trendData of the range
\* dashboard and dailyTrend of the latest-day dashboard.
C16_DailySeriesCoversRange ==
    (step = "done" /\ ValidRange /\ RowsOfRange /\ Len(inRows) > 0)
    => /\ IsEveryDay([i \in 1..Len(out.trendData) |-> out.trendData[i].date],
                     inStart, inEnd)
       /\ \A i \in 1..Len(out.trendData) :
             NoRowOn(out.trendData[i].date)
             => \A j \in 1..Len(out.trendData[i].values) : out.trendData[i].values[j] = 0
       /\ IsEveryDay([i \in 1..Len(out.dailyTrend) |-> out.dailyTrend[i].date],
                     inStart, inEnd)
       /\ \A i \in 1..Len(out.dailyTrend) :
             NoRowOn(out.dailyTrend[i].date)
             => (out.dailyTrend[i].total_first_responses = 0
                 /\ out.dailyTrend[i].sla_breaches = 0)

\* The rows of a (employee, date) pair among the given rows.
RowsOfPair(email, d) ==
    SelectSeq(inRows, LAMBDA r : r.employee_email = email /\ r.date = d)

\* A shown cell holds the breach count recorded for its pair, 0 without a
\* row of the pair.
IsRecordedCount(cell) ==
    LET rs == RowsOfPair(cell.employee_email, cell.date)
    IN /\ Len(rs) = 0 => cell.v = 0
       /\ Len(rs) = 1 => cell.v = CountOf(rs[1].sla_breaches)

\* C17: every cell the heatmap shows (range dashboard: top employees by
\* heatmap days; latest-day dashboard: employees by dates of the rows in
\* range) holds the breach count recorded for its employee and date in the
\* rows, and 0 when the rows have no row for the pair.
C17_HeatmapCells ==
    step = "done"
    => /\ \A i \in 1..Len(out.heatCells) : \A j \in 1..Len(out.heatCells[i]) :
             IsRecordedCount(out.heatCells[i][j])
       /\ \A i \in 1..Len(out.heatmapCells) : \A j \in 1..Len(out.heatmapCells[i]) :
             IsRecordedCount(out.heatmapCells[i][j])

\* C17 witness: both tables show a cell with a recorded count above 0 and
\* a cell of a pair without row.
C17_Witness ==
    /\ step = "done"
    /\ ValidRange
    /\ RowsOfRange
    /\ \E i \in 1..Len(out.heatCells) : \E j, k \in 1..Len(out.heatCells[i]) :
          /\ out.heatCells[i][j].v > 0
          /\ out.heatCells[i][k].v = 0
          /\ Len(RowsOfPair(out.heatCells[i][k].employee_email, out.heatCells[i][k].date)) = 0
    /\ \E i \in 1..Len(out.heatmapCells) : \E j, k \in 1..Len(out.heatmapCells[i]) :
          /\ out.heatmapCells[i][j].v > 0
          /\ out.heatmapCells[i][k].v = 0
          /\ Len(RowsOfPair(out.heatmapCells[i][k].employee_email,
                            out.heatmapCells[i][k].date)) = 0

\* The values of the cells a table shows.
ShownValues(cells) ==
    { cells[i][j].v : i \in 1..Len(cells), j \in DOMAIN (IF Len(cells) = 0 THEN <<>> ELSE cells[1]) }

\* The greatest value of a shown cell, 0 for a table without cells.
MaxShown(cells) ==
    LET vs == ShownValues(cells) \cup {0} IN CHOOSE m \in vs : \A v \in vs : v <= m

\* The fraction f is v / m clamped to [0, 1], for m > 0.
IsClampedRatio(f, v, m) ==
    /\ f.den > 0
    /\ 0 <= f.num /\ f.num <= f.den
    /\ f.num * m = f.den * (IF v < 0 THEN 0 ELSE IF v > m THEN m ELSE v)
    /\ v = m => f.num = f.den

\* C18: the intensity of every shown heatmap cell is its breach count over
\* the greatest breach count of the table, clamped to [0, 1]: between 0 and
\* 1, 1 for a cell that holds the maximum; with a maximum of 0 nothing is
\* divided (the range dashboard takes intensity 0, the latest-day dashboard
\* leaves the cell transparent).
C18_IntensityInUnitRange ==
    step = "done"
    => /\ \A i \in 1..Len(out.heatCells) : \A j \in 1..Len(out.heatCells[i]) :
             LET c == out.heatCells[i][j]
                 m == MaxShown(out.heatCells)
             IN IF m > 0 THEN IsClampedRatio(c.intensity, c.v, m)
                ELSE c.intensity.num = 0 /\ c.intensity.den > 0
       /\ \A i \in 1..Len(out.heatmapCells) : \A j \in 1..Len(out.heatmapCells[i]) :
             LET c == out.heatmapCells[i][j]
                 m == MaxShown(out.heatmapCells)
             IN IF m > 0
                THEN c.style.background = "shaded" /\ IsClampedRatio(c.style.t, c.v, m)
                ELSE c.style.background = "transparent"

\* C18 witness: both tables show a cell that holds the maximum (intensity
\* 1) and a cell with a smaller count above 0 (intensity between 0 and 1).
C18_Witness ==
    /\ step = "done"
    /\ \E i, k \in 1..Len(out.heatCells) : \E j \in 1..Len(out.heatCells[i]) :
          /\ out.heatCells[i][j].intensity.num = out.heatCells[i][j].intensity.den
          /\ out.heatCells[k][j].intensity.num > 0
          /\ out.heatCells[k][j].intensity.num < out.heatCells[k][j].intensity.den
    /\ \E i, k \in 1..Len(out.heatmapCells) : \E j \in 1..Len(out.heatmapCells[i]) :
          /\ out.heatmapCells[i][j].style.background = "shaded"
          /\ out.heatmapCells[i][j].style.t.num = out.heatmapCells[i][j].style.t.den
          /\ out.heatmapCells[k][j].style.t.num > 0
          /\ out.heatmapCells[k][j].style.t.num < out.heatmapCells[k][j].style.t.den

\* The rows of one date among the given rows.
RowsOn(d) == SelectSeq(inRows, LAMBDA r : r.date = d)

\* A shown cell holds the sum of the breaches of all the rows of its pair.
IsSumOfPair(cell) ==
    LET rs == RowsOfPair(cell.employee_email, cell.date)
    IN cell.v = SumColumn(rs, "sla_breaches", Len(rs))

RECURSIVE SumCells(_, _)
\* The sum of the values of the first n cells of one employee's line.
SumCells(line, n) == IF n = 0 THEN 0 ELSE SumCells(line, n - 1) + line[n].v

\* C19: with several rows of one (date, employee) every aggregate sums
\* them: the per-employee totals, the per-day values and the cell of the
\* pair in the heatmap and in the trend; so the cells of an employee over
\* the days add up to the employee's summary total.
C19_DuplicatesSummed ==
    (step = "done" /\ ValidRange /\ RowsOfRange)
    => /\ \A i \in 1..Len(out.perEmployeeOfRange) :
             LET e == out.perEmployeeOfRange[i]
                 rs == RowsOf(e.employee_email)
             IN /\ e.total_first_responses = SumColumn(rs, "total_first_responses", Len(rs))
                /\ e.sla_breaches = SumColumn(rs, "sla_breaches", Len(rs))
       /\ \A i \in 1..Len(out.dailyTrend) :
             LET rs == RowsOn(out.dailyTrend[i].date)
             IN /\ out.dailyTrend[i].total_first_responses =
                      SumColumn(rs, "total_first_responses", Len(rs))
                /\ out.dailyTrend[i].sla_breaches = SumColumn(rs, "sla_breaches", Len(rs))
       /\ \A i \in 1..Len(out.heatmapCells) : \A j \in 1..Len(out.heatmapCells[i]) :
             IsSumOfPair(out.heatmapCells[i][j])
       /\ \A i \in 1..Len(out.heatCells) : \A j \in 1..Len(out.heatCells[i]) :
             IsSumOfPair(out.heatCells[i][j])
       /\ \A i \in 1..Len(out.trendData) : \A j \in 1..Len(out.trendData[i].values) :
             LET rs == RowsOfPair(out.perEmployeeOfRange[j].employee_email,
                                  out.trendData[i].date)
             IN out.trendData[i].values[j] = SumColumn(rs, "total_first_responses", Len(rs))
       /\ Len(out.days) <= HeatmapMaxDays
          => \A i \in 1..Len(out.heatCells) :
                SumCells(out.heatCells[i], Len(out.heatCells[i]))
                = out.perEmployeeOfRange[i].sla_breaches

RECURSIVE Scan(_, _, _, _, _)
\* Reads delimited text as a reader of such files does: a double quote
\* opens or closes a quoted stretch, a comma outside one ends the field, a
\* newline outside one ends the record.  recs are the finished records,
\* rec the finished fields of the current record, field the characters of
\* the current field (its quotes included).
Scan(text, inQuotes, field, rec, recs) ==
    IF text = <<>> THEN Append(recs, Append(rec, field))
    ELSE LET c == Head(text) IN
         IF c = Quote THEN Scan(Tail(text), ~inQuotes, Append(field, c), rec, recs)
         ELSE IF c = Comma /\ ~inQuotes
              THEN Scan(Tail(text), inQuotes, <<>>, Append(rec, field), recs)
         ELSE IF c = Newline /\ ~inQuotes
              THEN Scan(Tail(text), inQuotes, <<>>, <<>>, Append(recs, Append(rec, field)))
         ELSE Scan(Tail(text), inQuotes, Append(field, c), rec, recs)

\* The records of a text, each the sequence of its fields as written.
RecordsOf(text) == Scan(text, FALSE, <<>>, <<>>, <<>>)

\* The characters of a cell value: none for null, the digits of a number.
CharsOf(v) ==
    IF v = Null THEN <<>>
    ELSE IF v.kind = "str" THEN v.val
    ELSE DigitsOf(v.val)

\* Field f is the written form of the characters s: s itself when s has no
\* double quote, comma or newline; otherwise s between double quotes, with
\* each double quote of s written twice.
IsWrittenForm(f, s) ==
    IF \A i \in 1..Len(s) : s[i] # Quote /\ s[i] # Comma /\ s[i] # Newline
    THEN f = s
    ELSE /\ Len(f) >= 2
         /\ f[1] = Quote
         /\ f[Len(f)] = Quote
         /\ LET inner == SubSeq(f, 2, Len(f) - 1)
                \* the position in inner of the i-th character of s
                at == [i \in 1..Len(s) |->
                          i + Cardinality({ k \in 1..(i - 1) : s[k] = Quote })]
            IN /\ Len(inner) = Len(s) + Cardinality({ k \in 1..Len(s) : s[k] = Quote })
               /\ \A i \in 1..Len(s) :
                     /\ inner[at[i]] = s[i]
                     /\ s[i] = Quote => inner[at[i] + 1] = Quote

\* The text has the labels as its first record and then one record per
\* object of the table, in order, a field per label holding the written
\* form of the object's value for that label.
IsTableText(text, labels) ==
    LET recs == RecordsOf(text)
    IN /\ Len(recs) = Len(table) + 1
       /\ recs[1] = labels
       /\ \A i \in 1..Len(table) :
             /\ Len(recs[i + 1]) = Len(labels)
             /\ \A j \in 1..Len(labels) :
                   \E k \in 1..Len(table[i]) :
                      /\ table[i][k].key = labels[j]
                      /\ IsWrittenForm(recs[i + 1][j], CharsOf(table[i][k].value))

\* C20: the serializers (toCSV with its headers; exportCSV, for a table
\* that is not empty, with the keys of the first object) emit a header line
\* of the labels and then exactly one line per object, in the order of the
\* table, the values in the order of the labels; a value is written
\* between double quotes, its double quotes doubled, if and only if it
\* holds a double quote, a comma or a newline, and unchanged otherwise.
C20_DelimitedText ==
    csv.state = "done"
    => /\ IsTableText(csv.toCSV, ExportHeaders)
       /\ Len(table) > 0
          => (csv.exportCSV.produced /\ IsTableText(csv.exportCSV.text, <<IdLabel, NoteLabel>>))

\* C20 witness: a table of two objects was serialized, one value holding
\* double quotes and one holding none of the three characters.
C20_Witness ==
    /\ csv.state = "done"
    /\ Len(table) = 2
    /\ table[1][2].value = Str(<<Quote, "a", Quote>>)
    /\ table[2][2].value = Str(<<"a", "b">>)
    /\ csv.exportCSV.produced
    /\ RecordsOf(csv.exportCSV.text)[2][2] = <<Quote, Quote, Quote, "a", Quote, Quote, Quote>>
    /\ RecordsOf(csv.toCSV)[3][1] = <<"a", "b">>

(***************************************************************************)
(* C21 .. C30                                                              *)
(***************************************************************************)
RECURSIVE Parse(_, _, _, _, _)
\* Parses delimited text back into records of values: fields are split on
\* commas and records on newlines outside quoted stretches; inside a quoted
\* stretch two double quotes are one double quote of the value and a single
\* one ends the stretch.
Parse(text, inQuotes, field, rec, recs) ==
    IF text = <<>> THEN Append(recs, Append(rec, field))
    ELSE LET c == Head(text) IN
         IF inQuotes
         THEN IF c = Quote
              THEN IF Len(text) >= 2 /\ text[2] = Quote
                   THEN Parse(Tail(Tail(text)), TRUE, Append(field, Quote), rec, recs)
                   ELSE Parse(Tail(text), FALSE, field, rec, recs)
              ELSE Parse(Tail(text), TRUE, Append(field, c), rec, recs)
         ELSE IF c = Quote THEN Parse(Tail(text), TRUE, field, rec, recs)
         ELSE IF c = Comma THEN Parse(Tail(text), FALSE, <<>>, Append(rec, field), recs)
         ELSE IF c = Newline
              THEN Parse(Tail(text), FALSE, <<>>, <<>>, Append(recs, Append(rec, field)))
         ELSE Parse(Tail(text), FALSE, Append(field, c), rec, recs)

\* The rows read back from a text: its records after the header line.
ParsedRows(text) == Tail(Parse(text, FALSE, <<>>, <<>>, <<>>))

\* The values of the table under the labels, as characters.
ValuesOf(labels) ==
    [i \in 1..Len(table) |-> [j \in 1..Len(labels) |->
        LET k == CHOOSE k \in 1..Len(table[i]) : table[i][k].key = labels[j]
        IN CharsOf(table[i][k].value)]]

\* C21: for every table and each exporter (toCSV, exportCSV with csvEscape,
\* downloadCSV) parsing the exported text back, splitting on commas and
\* honouring quoted fields, gives every column value of every row again,
\* also values with commas, double quotes or newlines.
C21_CsvRoundTrip ==
    (csv.state = "done" /\ Len(table) > 0)
    => /\ ParsedRows(csv.toCSV) = ValuesOf(ExportHeaders)
       /\ ParsedRows(csv.exportCSV.text) = ValuesOf(<<IdLabel, NoteLabel>>)
       /\ ParsedRows(csv.downloadCSV.text) = ValuesOf(<<IdLabel, NoteLabel>>)

\* C22: an export of an empty row set yields no output: no text is
\* produced and no download is triggered, never a header-only file (Export
\* Raw of the range dashboard, exportCSV, downloadCSV).
C22_EmptyExportIsSilent ==
    /\ (step = "done" /\ inRows = <<>>) => ~out.exportRaw.downloaded
    /\ (csv.state = "done" /\ table = <<>>)
       => (~csv.exportCSV.produced /\ ~csv.downloadCSV.produced)

\* The second aggregation of the same rows returned what the first did.
SameResultTwice == step = "twice" => out.second = out.first

\* C23: aggregation is idempotent and free of side effects: run twice on
\* the same rows it yields the same team totals, per-employee summaries,
\* daily series and heatmap, and it leaves the row array as it was (same
\* rows, same order).
C23_AggregationIdempotent == []SameResultTwice /\ [][inRows' = inRows]_vars

\* C23 witness: rows that are not in the order of their responses, which
\* the sort of perEmployee puts the summaries in, were aggregated twice.
C23_Witness ==
    /\ step = "twice"
    /\ Len(inRows) = 2
    /\ inRows[1].employee_email = "b"
    /\ inRows[1].total_first_responses = Num(5)
    /\ inRows[2].employee_email = "a"
    /\ inRows[2].total_first_responses = Num(10)
    /\ Len(out.second.perEmployeeOfRange) = 2
    /\ out.second.perEmployeeOfRange[1].employee_email = "a"
    /\ out.second.perEmployee[1].employee_email = "a"

\* A count of the team totals shows "no data": it is not a number.
IsNoDataCount(v) == v \notin Int

\* C24: for an empty row set and a valid range all team totals are the "no
\* data" sentinel (responses and breaches too, not a numeric 0), slaPercent
\* is the sentinel, and the daily series has an entry of zeros for every
\* day of the range.
C24_EmptyRowsAllSentinel ==
    (step = "done" /\ inRows = <<>> /\ ValidRange)
    => /\ out.totals.avgMinutes = Dash
       /\ out.totals.slaPercent = Dash
       /\ IsEveryDay([i \in 1..Len(out.trendData) |-> out.trendData[i].date],
                     inStart, inEnd)
       /\ \A i \in 1..Len(out.trendData) :
             \A j \in 1..Len(out.trendData[i].values) : out.trendData[i].values[j] = 0
       /\ IsNoDataCount(out.totals.totalResponses)
       /\ IsNoDataCount(out.totals.totalBreaches)

\* Every given row is dated and belongs to a listed employee.
RowsOfListedEmployees ==
    /\ AllDated
    /\ DateDescending(inRows)
    /\ \A i \in 1..Len(inRows) :
          /\ inRows[i].employee_email # ""
          /\ Weighs(inRows[i])

\* C25: in the employee-merge dashboard the team average, computed from
\* the per-employee entries, is the direct weighted average of the loaded
\* rows, sum of avg * count over sum of count, rounded once (to an integer,
\* as this dashboard rounds); it is the dash without a weighing row.
C25_TeamAverageFromEntries ==
    (step = "done" /\ RowsOfListedEmployees)
    => IF Denominator(inRows, Len(inRows)) = 0
       THEN out.teamTotals.avg = Dash
       ELSE /\ out.teamTotals.avg.kind = "num"
            /\ IsRounded(out.teamTotals.avg.val, Numerator(inRows, Len(inRows)),
                         Denominator(inRows, Len(inRows)))

\* C26: in the live-subscription dashboard, once no read is in flight the
\* rows shown are the result of the read issued last, which is the read of
\* the current table for the current number of days.
C26_LastIssuedReadWins ==
    (app = "live" /\ liveReads = <<>>) => liveRows = TrackedSince(tracked, liveDays)

\* loading is true exactly while the read of the active range is unresolved.
LoadingWhilePending == (app = "range") => (loading <=> CurrentPending)

\* A read of a replaced range that resolves while the read of the active
\* range is pending leaves loading true.
StaleReadKeepsLoading ==
    [][ \A i \in 1..Len(reads) :
          (CurrentPending /\ reads[i].cancelled /\ reads' = RemoveAt(reads, i))
          => (loading /\ loading') ]_vars

\* C27: in the range dashboard loading is true in every state in which the
\* read of the active range is unresolved and false once it has resolved or
\* the range is invalid; whenever loading is true it eventually becomes
\* false; and a stale read that resolves never clears loading while the
\* read of the active range is pending.
C27_LoadingFollowsActiveRead ==
    /\ []LoadingWhilePending
    /\ (app = "range" /\ loading) ~> ~loading
    /\ StaleReadKeepsLoading

\* C27 witness: after a change of the range the placeholder is on screen,
\* the read of the active range is pending and a read of the replaced range
\* is still in flight.
C27_Witness ==
    /\ app = "range"
    /\ loading
    /\ ~shown
    /\ Len(reads) = 2
    /\ reads[1].cancelled
    /\ ~reads[2].cancelled
    /\ RangeRendered
    /\ <<reads[2].start, reads[2].end>> = committed

\* C28: in the range dashboard a non-empty loadError implies that rows is
\* empty: rows of a successful read are never shown together with the
\* message of an invalid range or of a failed read.
C28_ErrorMeansNoRows == (app = "range" /\ loadError # "") => rows = <<>>

\* C28 witness: the read of a range that has rows in the table failed: the
\* message of the failure is set and no rows are shown.
C28_Witness ==
    /\ app = "range"
    /\ loadError \notin {"", InvalidRangeMsg}
    /\ rows = <<>>
    /\ Query(startDate, endDate) # <<>>

\* The preset becomes "custom".
ToCustom == preset # "custom" /\ preset' = "custom"

\* The active range changes.
RangeChanges == <<startDate, endDate>>' # <<startDate, endDate>>

\* The effects of the last commit have run.
EffectsRan == committed = effectDeps

\* C29: the step that switches the preset to "custom" leaves startDate and
\* endDate, and the committed dates, as they were, issues no read and
\* leaves rows (and loading and loadError) unchanged, a load effect still
\* pending for the dates committed before running in it as it would have
\* without the switch; the range changes only in a step that selects a
\* numeric preset or edits a bound in custom mode.
C29_CustomKeepsRange ==
    /\ [][ ToCustom =>
             /\ UNCHANGED <<startDate, endDate, committed>>
             /\ EffectsRan => UNCHANGED <<reads, rows, loading, loadError>>
             /\ ~EffectsRan => Loaded' = LoadEffect(Loaded, committed[1], committed[2]) ]_vars
    /\ [][ RangeChanges =>
             \/ (preset' # preset /\ preset' # "custom")
             \/ (preset = "custom" /\ preset' = "custom") ]_vars

\* C29 witness: the preset is "custom" and the range is still the window of
\* the 7-day preset selected before, with the rows of that window shown.
C29_Witness ==
    /\ app = "range"
    /\ preset = "custom"
    /\ endDate = todayISO
    /\ startDate = PresetStart(todayISO, 7)
    /\ ~loading
    /\ rows # <<>>
    /\ rows = Query(startDate, endDate)

\* The loaded rows whose date lies inside [rangeStart, rangeEnd].
Dated(r) == r.date \notin {EmptyStr, NullDate}
RowsInsideRange ==
    IF rangeStart \in {EmptyStr, NullDate} \/ rangeEnd \in {EmptyStr, NullDate}
    THEN <<>>
    ELSE SelectSeq(teamMetrics, LAMBDA r :
             Dated(r) /\ StrLE(rangeStart, r.date) /\ StrLE(r.date, rangeEnd))

\* d is the greatest date among the rows rs.
IsGreatestDate(d, rs) ==
    /\ \E i \in 1..Len(rs) : rs[i].date = d
    /\ \A i \in 1..Len(rs) : StrLE(rs[i].date, d)

\* C30: in the latest-day dashboard the KPI day is the greatest date among
\* the rows inside the range (null when there is none) and latestMetrics
\* are exactly the rows inside the range with that date; with a numeric
\* preset and a dated row loaded, metricsInRange is not empty and the KPI
\* day is rangeEnd, the greatest date of the loaded data.
C30_LatestDayOfRange ==
    (app = "latest") =>
    LET day == latestDateInRange(MetricsInRange) IN
    /\ IF RowsInsideRange = <<>> THEN day = NullDate
       ELSE IsGreatestDate(day, RowsInsideRange)
    /\ LatestMetrics = SelectSeq(RowsInsideRange, LAMBDA r : r.date = day)
    /\ (rangePreset # "custom" /\ HasDates)
       => /\ MetricsInRange # <<>>
          /\ day = rangeEnd
          /\ IsAnchor(rangeEnd)

\* C30 witness: with the 7-day preset two loaded rows of different days are
\* inside the range and only the later one is of the KPI day.
C30_Witness ==
    /\ app = "latest"
    /\ rangePreset = "7"
    /\ Len(MetricsInRange) = 2
    /\ Len(LatestMetrics) = 1
    /\ LatestMetrics[1].date = rangeEnd

====
